---- MODULE Spec2Model ----
(***************************************************************************)
(* Customer / subscription panel (painel-de-cliente).                      *)
(*                                                                         *)
(* The state is the five collections of the store hook (customers,         *)
(* servers, plans, renewals, manual additions), the wall clock, the last   *)
(* backup file exported (and the collections it was written from), the     *)
(* reminder template, the position of the cloud synchronisation, the       *)
(* handler that ran last with its input, and the number of handlers run.   *)
(* One action per handler of the views (customer                           *)
(* form, delete, renew dialog of the dashboard and of the customers list,  *)
(* reminder buttons, server form, plan price editor, manual addition,      *)
(* spreadsheet import, backup export and restore, clear-all, the message   *)
(* editor, the sync button and each awaited write of the synchronisation). *)
(*                                                                         *)
(* Representation                                                          *)
(*   number      JS number: [t |-> "num", v |-> n] with n in hundredths     *)
(*               (cents) for money, NaN, or undefined (a missing field)    *)
(*   text        what the operator typed: a sequence of one-character      *)
(*               strings                                                   *)
(*   date string 'yyyy-MM-dd': <<y, m, d>>; a string no parser accepts     *)
(*               (the empty string, garbage of an import): << >>           *)
(*   instant     a JS Date in local time: [date |-> <<y, m, d>>,           *)
(*               tod |-> k], k-th tick of that day; Invalid Date is        *)
(*               InvalidDate                                               *)
(*   uuid        a positive integer that occurs nowhere in the state when  *)
(*               it is drawn; the empty string '' is 0                     *)
(***************************************************************************)
EXTENDS Integers, Sequences, FiniteSets, TLC

VARIABLES build, now, customers, servers, plans, renewals, manualAdditions,
          backup, lastOp, opsDone, whatsappMessage, sync, exported

vars == <<build, now, customers, servers, plans, renewals, manualAdditions,
          backup, lastOp, opsDone, whatsappMessage, sync, exported>>

\* what the handlers of the collections leave alone: the reminder
\* template, the cloud synchronisation and the record of the last export
rest == <<whatsappMessage, sync, exported>>

(***************************************************************************)
(* Bounds of the model.                                                    *)
(***************************************************************************)
\* ticks of the clock in one day (granularity of the time of day)
TicksPerDay == 2
\* ticks the clock may advance after start
MaxTicks == 3
\* operations the operator may perform in one behaviour
MaxOps == 4
\* rows of an imported sheet
MaxRows == 2

(***************************************************************************)
(* JS numbers.                                                             *)
(***************************************************************************)
Num(n) == [t |-> "num", v |-> n]
NaN == [t |-> "NaN", v |-> 0]
Undefined == [t |-> "undefined", v |-> 0]
Null == [t |-> "null", v |-> 0]

\* ToNumber: null converts to 0, undefined to NaN
IsNumeric(x) == x.t \in {"num", "null"}

isNaN(x) == ~IsNumeric(x)

\* a + b of JS on numbers: NaN (and undefined, which converts to NaN) absorbs
Plus(a, b) == IF IsNumeric(a) /\ IsNumeric(b) THEN Num(a.v + b.v) ELSE NaN

\* variant of Minus that adds
MinusAsSum(a, b) == IF IsNumeric(a) /\ IsNumeric(b) THEN Num(a.v + b.v) ELSE NaN

Minus(a, b) == IF IsNumeric(a) /\ IsNumeric(b) THEN Num(a.v - b.v) ELSE NaN

\* x || 0: NaN, undefined, null and 0 are falsy
OrZero(x) == IF x.t = "num" THEN x ELSE Num(0)

\* variant of MathAbs that keeps the sign
MathKeep(x) == x

MathAbs(x) == IF x.t = "num" THEN Num(IF x.v < 0 THEN 0 - x.v ELSE x.v) ELSE NaN

\* a > 0 and a < 0 are false on NaN
GtZero(x) == x.t = "num" /\ x.v > 0
LtZero(x) == x.t = "num" /\ x.v < 0

(***************************************************************************)
(* Text input: String.replace(',', '.') and parseFloat.                    *)
(***************************************************************************)
Digits == {"0", "1", "2", "3", "4", "5", "6", "7", "8", "9"}

DigitVal(ch) ==
  CASE ch = "0" -> 0 [] ch = "1" -> 1 [] ch = "2" -> 2 [] ch = "3" -> 3
    [] ch = "4" -> 4 [] ch = "5" -> 5 [] ch = "6" -> 6 [] ch = "7" -> 7
    [] ch = "8" -> 8 [] ch = "9" -> 9

\* s.replace(',', '.'): a string pattern replaces the first occurrence only
ReplaceComma(s) ==
  IF \E i \in 1..Len(s) : s[i] = ","
  THEN LET i == CHOOSE i \in 1..Len(s) :
                  s[i] = "," /\ \A j \in 1..(i - 1) : s[j] # ","
       IN [k \in 1..Len(s) |-> IF k = i THEN "." ELSE s[k]]
  ELSE s

\* length of the longest run of digits of s starting at position i
RECURSIVE DigitRun(_, _)
DigitRun(s, i) ==
  IF i <= Len(s) /\ s[i] \in Digits THEN 1 + DigitRun(s, i + 1) ELSE 0

\* value of the digits s[i .. i+n-1]
RECURSIVE DigitsValue(_, _, _)
DigitsValue(s, i, n) ==
  IF n = 0 THEN 0 ELSE DigitsValue(s, i, n - 1) * 10 + DigitVal(s[i + n - 1])

\* parseFloat: leading blanks, an optional sign, digits, an optional point
\* and digits; whatever follows is ignored; no digit at all gives NaN.  The
\* value is kept in hundredths (fraction digits after the second dropped).
parseFloat(s) ==
  LET RECURSIVE Blanks(_)
      Blanks(i) == IF i <= Len(s) /\ s[i] = " " THEN 1 + Blanks(i + 1) ELSE 0
      p0 == 1 + Blanks(1)
      signed == p0 <= Len(s) /\ s[p0] \in {"-", "+"}
      neg == signed /\ s[p0] = "-"
      p1 == IF signed THEN p0 + 1 ELSE p0
      nInt == DigitRun(s, p1)
      p2 == p1 + nInt
      hasPoint == p2 <= Len(s) /\ s[p2] = "."
      nFrac == IF hasPoint THEN DigitRun(s, p2 + 1) ELSE 0
      d1 == IF nFrac >= 1 THEN DigitVal(s[p2 + 1]) ELSE 0
      d2 == IF nFrac >= 2 THEN DigitVal(s[p2 + 2]) ELSE 0
      mag == DigitsValue(s, p1, nInt) * 100 + d1 * 10 + d2
  IN IF nInt = 0 /\ nFrac = 0 THEN NaN
     ELSE Num(IF neg THEN 0 - mag ELSE mag)

\* the amount read from a text field of a form or dialog
\* variant of ParseAmount that takes text that is no number for 0
ParseAmountOrZero(text) ==
  IF parseFloat(ReplaceComma(text)) = NaN THEN Num(0)
  ELSE parseFloat(ReplaceComma(text))

ParseAmount(text) == parseFloat(ReplaceComma(text))

(***************************************************************************)
(* Calendar (date-fns on local time, no daylight-saving change).           *)
(***************************************************************************)
InvalidDate == [date |-> << >>, tod |-> 0]

IsLeap(y) == (y % 4 = 0 /\ y % 100 # 0) \/ y % 400 = 0

DaysInMonth(y, m) ==
  IF m = 2 THEN (IF IsLeap(y) THEN 29 ELSE 28)
  ELSE IF m \in {4, 6, 9, 11} THEN 30 ELSE 31

\* days since 1970-01-01 of the calendar day <<y, m, d>>
DayNumber(ymd) ==
  LET y == IF ymd[2] <= 2 THEN ymd[1] - 1 ELSE ymd[1]
      era == y \div 400
      yoe == y - era * 400
      mp == IF ymd[2] > 2 THEN ymd[2] - 3 ELSE ymd[2] + 9
      doy == (153 * mp + 2) \div 5 + ymd[3] - 1
      doe == yoe * 365 + yoe \div 4 - yoe \div 100 + doy
  IN era * 146097 + doe - 719468

NextDay(ymd) ==
  IF ymd[3] < DaysInMonth(ymd[1], ymd[2]) THEN <<ymd[1], ymd[2], ymd[3] + 1>>
  ELSE IF ymd[2] < 12 THEN <<ymd[1], ymd[2] + 1, 1>>
  ELSE <<ymd[1] + 1, 1, 1>>

PrevDay(ymd) ==
  IF ymd[3] > 1 THEN <<ymd[1], ymd[2], ymd[3] - 1>>
  ELSE IF ymd[2] > 1 THEN <<ymd[1], ymd[2] - 1, DaysInMonth(ymd[1], ymd[2] - 1)>>
  ELSE <<ymd[1] - 1, 12, 31>>

RECURSIVE AddDays(_, _)
AddDays(ymd, n) ==
  IF n = 0 THEN ymd
  ELSE IF n > 0 THEN AddDays(NextDay(ymd), n - 1)
  ELSE AddDays(PrevDay(ymd), n + 1)

IsValidDate(dt) == dt.date # << >>

\* position of an instant on the time line, in ticks
Ticks(dt) == DayNumber(dt.date) * TicksPerDay + dt.tod

\* Date.getTime() comparison of date-fns isAfter: false on an Invalid Date
isAfter(a, b) == IsValidDate(a) /\ IsValidDate(b) /\ Ticks(a) > Ticks(b)

Sign(n) == IF n > 0 THEN 1 ELSE IF n < 0 THEN 0 - 1 ELSE 0

Abs(n) == IF n < 0 THEN 0 - n ELSE n

\* variant of differenceInDays that rounds down instead of towards zero
differenceInDaysFloor(left, right) ==
  IF ~IsValidDate(left) \/ ~IsValidDate(right) THEN NaN
  ELSE LET ticks == Ticks(left) - Ticks(right)
       IN Num(IF ticks >= 0 THEN ticks \div TicksPerDay
              ELSE 0 - ((0 - ticks + TicksPerDay - 1) \div TicksPerDay))

\* date-fns differenceInDays: the number of full days between two instants.
\* It takes the difference in calendar days, moves the left date by that
\* many days towards the right one, and drops the last day when the moved
\* date has not yet reached the right one (so the result is truncated
\* towards zero).  NaN when a date is invalid.
differenceInDays(left, right) ==
  IF ~IsValidDate(left) \/ ~IsValidDate(right) THEN NaN
  ELSE LET sign == Sign(Ticks(left) - Ticks(right))
           difference == Abs(DayNumber(left.date) - DayNumber(right.date))
           moved == Ticks(left) - sign * difference * TicksPerDay
           isLastDayNotFull ==
             IF Sign(moved - Ticks(right)) = 0 - sign /\ sign # 0 THEN 1 ELSE 0
       IN Num(sign * (difference - isLastDayNotFull))

\* date-fns addMonths: same day of the month `amount` months later, or the
\* last day of that month when it is shorter; the time of day is kept
addMonths(dt, amount) ==
  IF ~IsValidDate(dt) THEN InvalidDate
  ELSE LET m0 == (dt.date[2] - 1) + amount
           y == dt.date[1] + m0 \div 12
           m == (m0 % 12) + 1
           dim == DaysInMonth(y, m)
           d == IF dt.date[3] >= dim THEN dim ELSE dt.date[3]
       IN [date |-> <<y, m, d>>, tod |-> dt.tod]

\* format(date, 'yyyy-MM-dd'): the calendar day, the time of day dropped
formatYMD(dt) == dt.date

\* Dashboard and Servers: parseLocalDate, local midnight of the day written
\* in the string, Invalid Date for a string that is no date
parseLocalDate(dateStr) ==
  IF dateStr = << >> THEN InvalidDate ELSE [date |-> dateStr, tod |-> 0]

\* Customers: parseLocalDate without any check, new Date(y, m - 1, d)
parseLocalDateCustomers(dateStr) ==
  IF dateStr = << >> THEN InvalidDate ELSE [date |-> dateStr, tod |-> 0]

\* date-fns parseISO of a date-only string: local midnight
parseISO(dateStr) ==
  IF dateStr = << >> THEN InvalidDate ELSE [date |-> dateStr, tod |-> 0]

\* setHours(0, 0, 0, 0)
MidnightOf(dt) == [date |-> dt.date, tod |-> 0]

\* today of the Dashboard and of the Servers view: new Date() with
\* setHours(0, 0, 0, 0)
TodayMidnight == MidnightOf(now)

\* today of the Customers view: new Date(), the time of day kept
TodayCustomers == now

startOfMonth(dt) == [date |-> <<dt.date[1], dt.date[2], 1>>, tod |-> 0]

\* variant of endOfMonth that stops at the midnight opening the last day
endOfMonthMidnight(dt) ==
  [date |-> <<dt.date[1], dt.date[2], DaysInMonth(dt.date[1], dt.date[2])>>,
   tod |-> 0]

\* the last instant of the month
endOfMonth(dt) ==
  [date |-> <<dt.date[1], dt.date[2], DaysInMonth(dt.date[1], dt.date[2])>>,
   tod |-> TicksPerDay - 1]

\* date-fns isWithinInterval: start <= date <= end on getTime()
isWithinInterval(dt, start, end) ==
  IsValidDate(dt) /\ Ticks(dt) >= Ticks(start) /\ Ticks(dt) <= Ticks(end)

(***************************************************************************)
(* The store (useStore).  The repository holds two definitions of the hook *)
(* and of the application shell that wires it to the views; a build has    *)
(* one of them:                                                            *)
(*   build "A": store.ts lines 5-140 with App.tsx lines 150-325            *)
(*   build "B": store.ts lines 154-277 with App.tsx lines 21-144           *)
(***************************************************************************)
Builds == {"A", "B"}

Plan(id, name, months, price) ==
  [id |-> id, name |-> name, months |-> months, defaultPrice |-> Num(price)]

\* the plans of a fresh install (nothing saved in localStorage)
DefaultPlans(b) ==
  IF b = "A"
  THEN <<Plan("1", "Mensal", 1, 3000), Plan("2", "Trimestral", 3, 8000),
         Plan("gratuito", "Gratuito", 1, 0)>>
  ELSE <<Plan("0", "Gratuito", 1, 0), Plan("1", "Mensal", 1, 3500),
         Plan("2", "Trimestral", 3, 9000), Plan("3", "Semestral", 6, 16000),
         Plan("4", "Anual", 12, 30000)>>

Range(seq) == {seq[i] : i \in 1..Len(seq)}

\* Array.prototype.find: the first element that satisfies the test, as a
\* sequence of length 0 (undefined) or 1; hits are the positions of seq
\* where the test holds
FindFirst(seq, hits) ==
  IF hits = {} THEN << >>
  ELSE <<seq[CHOOSE i \in hits : \A j \in hits : i <= j]>>

FindById(seq, id) == FindFirst(seq, {i \in 1..Len(seq) : seq[i].id = id})

\* prev.filter(item => item.id !== id)
RemoveById(seq, id) == LET Keep(x) == x.id # id IN SelectSeq(seq, Keep)

\* prev.map(item => item.id === id ? { ...item, ...data } : item)
MergeById(seq, id, data) ==
  [i \in 1..Len(seq) |-> IF seq[i].id = id THEN data @@ seq[i] ELSE seq[i]]

\* addCustomer: build A gives the record an id of its own, build B stores
\* the record it is given
addCustomer(cs, c, fresh) ==
  IF build = "A" THEN Append(cs, [c EXCEPT !.id = fresh]) ELSE Append(cs, c)

\* variant of updateCustomer that merges the data into every customer
updateEveryCustomer(cs, id, data) == [i \in 1..Len(cs) |-> data @@ cs[i]]

updateCustomer(cs, id, data) == MergeById(cs, id, data)

deleteCustomer(cs, id) == RemoveById(cs, id)

addServer(ss, srv, fresh) == Append(ss, [id |-> fresh] @@ srv)

updateServer(ss, id, data) == MergeById(ss, id, data)

deleteServer(ss, id) == RemoveById(ss, id)

\* build A: updatePlan(id, { defaultPrice: price }); build B:
\* updatePlan(id, defaultPrice)
updatePlan(ps, id, price) == MergeById(ps, id, [defaultPrice |-> price])

addRenewal(rs, r, fresh) == Append(rs, [id |-> fresh] @@ r)

addManualAddition(as, a, fresh) == Append(as, [id |-> fresh] @@ a)

(***************************************************************************)
(* Lifecycle classification at its call sites.                             *)
(***************************************************************************)
IsZero(x) == x.t = "num" /\ x.v = 0

\* isAfter(dueDate, today) || differenceInDays(dueDate, today) === 0
IsActiveAt(due, today) == isAfter(due, today) \/ IsZero(differenceInDays(due, today))

\* Dashboard stats: a customer with an invalid date is skipped
DashboardIsActive(c) ==
  LET dueDate == parseLocalDate(c.dueDate)
  IN IsValidDate(dueDate) /\ IsActiveAt(dueDate, TodayMidnight)

\* Servers view: activeCustomers filter
ServersIsActive(c) == IsActiveAt(parseLocalDate(c.dueDate), TodayMidnight)

\* Customers view: status filter of filteredCustomers
CustomersFilterIsActive(c) ==
  IsActiveAt(parseLocalDateCustomers(c.dueDate), TodayCustomers)

\* Customers view: daysDiff of a list item
CustomersDaysDiff(c) == differenceInDays(parseISO(c.dueDate), TodayCustomers)

\* Customers view: status badge of a list item
CustomersBadgeIsActive(c) ==
  isAfter(parseISO(c.dueDate), TodayCustomers) \/ IsZero(CustomersDaysDiff(c))

\* Dashboard: daysUntilDue of a customer, today being the midnight the
\* view computed
DashboardDaysAt(c, today) == differenceInDays(parseLocalDate(c.dueDate), today)

DashboardDays(c) == DashboardDaysAt(c, TodayMidnight)

(***************************************************************************)
(* uuidv4(): an identifier that was never drawn before.  Identifiers are   *)
(* only ever compared for equality, so the k-th identifier of a handler is *)
(* the k-th positive integer that occurs nowhere in the state (collections *)
(* and backup file).                                                       *)
(***************************************************************************)
IdsOf(cs, ss, rs, as) ==
  {cs[i].id : i \in 1..Len(cs)} \cup {cs[i].serverId : i \in 1..Len(cs)}
    \cup {ss[i].id : i \in 1..Len(ss)}
    \cup {rs[i].id : i \in 1..Len(rs)}
    \cup {rs[i].customerId : i \in 1..Len(rs)}
    \cup {rs[i].serverId : i \in 1..Len(rs)}
    \cup {as[i].id : i \in 1..Len(as)}

\* the array under a key of a backup file, [] when there is none
ArrayOf(field) == IF field = << >> THEN << >> ELSE field[1]

UsedIds ==
  IdsOf(customers, servers, renewals, manualAdditions)
    \cup (IF backup = << >> THEN {}
          ELSE IdsOf(ArrayOf(backup[1].customers), ArrayOf(backup[1].servers),
                     ArrayOf(backup[1].renewals),
                     ArrayOf(backup[1].manualAdditions)))

RECURSIVE NthUnused(_, _, _)
NthUnused(used, from, k) ==
  IF from \in used THEN NthUnused(used, from + 1, k)
  ELSE IF k = 1 THEN from ELSE NthUnused(used, from + 1, k - 1)

uuidv4(k) == NthUnused(UsedIds, 1, k)

(***************************************************************************)
(* Customers view: the customer form.                                      *)
(***************************************************************************)
\* plan?.months || 1
MonthsOrOne(plan) ==
  IF plan = << >> \/ plan[1].months = 0 THEN 1 ELSE plan[1].months

\* variant of CostOf that charges one month whatever the plan
CostOfOneMonth(server, months) ==
  IF server = << >> THEN Num(0) ELSE OrZero(server[1].costPerActive)

\* (server?.costPerActive || 0) * months
CostOf(server, months) ==
  LET c == IF server = << >> THEN Num(0) ELSE OrZero(server[1].costPerActive)
  IN Num(c.v * months)

\* handleSubmit.  editing is << >> (new customer) or <<the customer being
\* edited>>; formData holds the fields of the form, the amount as text.
handleSubmit(editing, formData) ==
  LET amount == ParseAmount(formData.amountPaid)
      data == [name |-> formData.name, serverId |-> formData.serverId,
               planId |-> formData.planId, amountPaid |-> amount,
               dueDate |-> formData.dueDate]
      newId == uuidv4(1)
      server == FindById(servers, data.serverId)
      plan == FindById(plans, data.planId)
      cost == CostOf(server, MonthsOrOne(plan))
  IN /\ lastOp' = [op |-> "Customers.handleSubmit",
                   input |-> [editing |-> editing, formData |-> formData]]
     /\ IF isNaN(amount)
        THEN UNCHANGED <<customers, renewals>>
        ELSE IF editing # << >>
        THEN /\ customers' = updateCustomer(customers, editing[1].id, data)
             /\ UNCHANGED renewals
        ELSE /\ customers' =
                  addCustomer(customers,
                              [id |-> newId, lastNotifiedDate |-> << >>] @@ data,
                              uuidv4(2))
             /\ renewals' =
                  addRenewal(renewals,
                             [customerId |-> newId, serverId |-> data.serverId,
                              planId |-> data.planId, amount |-> data.amountPaid,
                              cost |-> cost, date |-> now],
                             uuidv4(IF build = "A" THEN 3 ELSE 2))
     /\ UNCHANGED <<rest, build, now, servers, plans, manualAdditions, backup>>

\* variant of confirmDelete that also drops the renewals of the customer
confirmDeleteCascade(customerToDelete) ==
  LET Other(r) == r.customerId # customerToDelete.id
  IN /\ customers' = deleteCustomer(customers, customerToDelete.id)
     /\ renewals' = SelectSeq(renewals, Other)
     /\ lastOp' = [op |-> "Customers.confirmDelete",
                   input |-> [id |-> customerToDelete.id]]
     /\ UNCHANGED <<rest, build, now, servers, plans, manualAdditions, backup>>

\* confirmDelete
confirmDelete(customerToDelete) ==
  /\ customers' = deleteCustomer(customers, customerToDelete.id)
  /\ lastOp' = [op |-> "Customers.confirmDelete",
                input |-> [id |-> customerToDelete.id]]
  /\ UNCHANGED <<rest, build, now, servers, plans, renewals, manualAdditions, backup>>

(***************************************************************************)
(* The renew dialog of the Dashboard and of the Customers view.            *)
(***************************************************************************)
\* today as the view reads it: the Dashboard normalises to midnight, the
\* Customers view does not
TodayOf(view) == IF view = "Dashboard" THEN TodayMidnight ELSE TodayCustomers

ParseDueOf(view, dateStr) ==
  IF view = "Dashboard" THEN parseLocalDate(dateStr)
  ELSE parseLocalDateCustomers(dateStr)

\* variant of RenewDueDate that always counts from today
RenewDueDateFromToday(view, customer, plan) ==
  formatYMD(addMonths(TodayOf(view), plan.months))

\* the due date a renew writes
RenewDueDate(view, customer, plan) ==
  LET currentDueDate == ParseDueOf(view, customer.dueDate)
      isActive == IsActiveAt(currentDueDate, TodayOf(view))
      baseDate == IF isActive THEN currentDueDate ELSE TodayOf(view)
  IN formatYMD(addMonths(baseDate, plan.months))

\* variant of confirmRenew that records the renewal whether or not the
\* customer and the plan are there, and leaves the customer as it is
confirmRenewUnguarded(view, renewData) ==
  /\ lastOp' = [op |-> view \o ".confirmRenew", input |-> renewData]
  /\ renewals' =
       addRenewal(renewals,
                  [customerId |-> renewData.customerId,
                   serverId |-> renewData.serverId,
                   planId |-> renewData.planId,
                   amount |-> ParseAmount(renewData.amountPaid),
                   cost |-> CostOf(FindById(servers, renewData.serverId),
                                   MonthsOrOne(FindById(plans, renewData.planId))),
                   date |-> now],
                  uuidv4(1))
  /\ UNCHANGED <<rest, build, now, customers, servers, plans, manualAdditions, backup>>

\* confirmRenew with the dialog's state renewData
confirmRenew(view, renewData) ==
  LET customer == FindById(customers, renewData.customerId)
      plan == FindById(plans, renewData.planId)
      server == FindById(servers, renewData.serverId)
      amount == ParseAmount(renewData.amountPaid)
  IN /\ lastOp' = [op |-> view \o ".confirmRenew", input |-> renewData]
     /\ IF customer # << >> /\ plan # << >>
        THEN /\ customers' =
                  updateCustomer(customers, customer[1].id,
                                 [serverId |-> renewData.serverId,
                                  planId |-> renewData.planId,
                                  amountPaid |-> amount,
                                  dueDate |-> RenewDueDate(view, customer[1], plan[1])])
             /\ renewals' =
                  addRenewal(renewals,
                             [customerId |-> customer[1].id,
                              serverId |-> renewData.serverId,
                              planId |-> renewData.planId, amount |-> amount,
                              cost |-> CostOf(server, MonthsOrOne(plan)),
                              date |-> now],
                             uuidv4(1))
        ELSE UNCHANGED <<customers, renewals>>
     /\ UNCHANGED <<rest, build, now, servers, plans, manualAdditions, backup>>

(***************************************************************************)
(* Dashboard: expiring queue, pending notifications, reminders.            *)
(***************************************************************************)
\* variant of InWindow without the two ends
InWindowInside(days) == days.t = "num" /\ days.v > 0 - 7 /\ days.v < 7

InWindow(days) == days.t = "num" /\ days.v >= 0 - 7 /\ days.v <= 7

\* customers.forEach(...): a customer with a valid due date whose day
\* difference lies in the window is pushed, in the order of the collection
ExpiringUnsorted(cs, today) ==
  LET Keep(c) == /\ IsValidDate(parseLocalDate(c.dueDate))
                 /\ InWindow(DashboardDaysAt(c, today))
  IN SelectSeq(cs, Keep)

\* the comparator of expiring.sort: > 0 puts a after b
ExpiringCompare(a, b) ==
  LET dateA == parseLocalDate(a.dueDate)
      dateB == parseLocalDate(b.dueDate)
  IN IF ~IsValidDate(dateA) THEN 1
     ELSE IF ~IsValidDate(dateB) THEN 0 - 1
     ELSE Ticks(dateA) - Ticks(dateB)

\* Array.prototype.sort is stable: insertion after the last element that
\* does not compare greater
RECURSIVE SortExpiring(_)
SortExpiring(seq) ==
  IF seq = << >> THEN << >>
  ELSE LET init == SortExpiring(SubSeq(seq, 1, Len(seq) - 1))
           x == seq[Len(seq)]
           k == Cardinality({i \in 1..Len(init) :
                               \E j \in i..Len(init) :
                                 ExpiringCompare(init[j], x) <= 0})
       IN SubSeq(init, 1, k) \o <<x>> \o SubSeq(init, k + 1, Len(init))

\* the expiring list the stats memo returns for the customers cs
expiringCustomersOf(cs, today) == SortExpiring(ExpiringUnsorted(cs, today))

expiringCustomers == expiringCustomersOf(customers, TodayMidnight)

IsSeven(days) == days.t = "num" /\ days.v = 7

\* variant of IsPendingAt that does not look at lastNotifiedDate
IsPendingUngated(c, today) == IsSeven(DashboardDaysAt(c, today))

\* days === 7 && c.lastNotifiedDate !== format(today, 'yyyy-MM-dd')
IsPendingAt(c, today) ==
  IsSeven(DashboardDaysAt(c, today)) /\ c.lastNotifiedDate # formatYMD(today)

pendingNotificationsOf(cs, today) ==
  LET Pending(c) == IsPendingAt(c, today)
  IN SelectSeq(expiringCustomersOf(cs, today), Pending)

pendingNotifications == pendingNotificationsOf(customers, TodayMidnight)

(***************************************************************************)
(* The reminder message of the three WhatsApp buttons.                     *)
(***************************************************************************)
Tokens == {"{nome}", "{valor}", "{dias}", "{vencimento}"}

DigitChar(d) == <<"0", "1", "2", "3", "4", "5", "6", "7", "8", "9">>[d + 1]

\* the decimal digits of a natural number, padded with zeros to width
RECURSIVE DigitsOf(_, _)
DigitsOf(n, width) ==
  IF n < 10 /\ width <= 1 THEN <<DigitChar(n)>>
  ELSE Append(DigitsOf(n \div 10, width - 1), DigitChar(n % 10))

\* the integer part of a pt-BR number: groups of three separated by '.'
RECURSIVE Grouped(_)
Grouped(n) ==
  IF n < 1000 THEN DigitsOf(n, 1)
  ELSE Grouped(n \div 1000) \o <<".">> \o DigitsOf(n % 1000, 3)

\* Intl.NumberFormat('pt-BR', currency BRL).format(val) of an amount in
\* hundredths: 'R$ 1.234,56', '-R$ 30,00', 'R$ NaN' for NaN and undefined,
\* null formatted as 0
formatCurrency(val) ==
  IF ~IsNumeric(val) THEN <<"R$ ", "NaN">>
  ELSE (IF val.v < 0 THEN <<"-">> ELSE << >>) \o <<"R$ ">>
         \o Grouped(Abs(val.v) \div 100) \o <<",">> \o DigitsOf(Abs(val.v) % 100, 2)

\* days === 0 ? 'hoje' : `${days} dias`
DaysText(days) ==
  IF IsZero(days) THEN <<"hoje">>
  ELSE (IF days.t # "num" THEN <<"NaN">>
        ELSE (IF days.v < 0 THEN <<"-">> ELSE << >>) \o DigitsOf(Abs(days.v), 1))
       \o <<" dias">>

\* isNaN(d.getTime()) ? 'Data Invalida' : format(d, 'dd/MM/yyyy')
VencimentoText(d) ==
  IF ~IsValidDate(d) THEN <<"Data Invalida">>
  ELSE DigitsOf(d.date[3], 2) \o <<"/">> \o DigitsOf(d.date[2], 2) \o <<"/">>
         \o DigitsOf(d.date[1], 4)

\* the replacement text of String.prototype.replace: '$$' stands for '$'
\* and '$&' for the text matched
Substitution(value, matched) ==
  [i \in 1..Len(value) |-> IF value[i] = "$&" THEN matched
                           ELSE IF value[i] = "$$" THEN "$" ELSE value[i]]

\* str.replace(token, value) with a string pattern: the first occurrence
\* only, the string as it is when there is none
replace(str, token, value) ==
  IF \A i \in 1..Len(str) : str[i] # token THEN str
  ELSE LET i == CHOOSE k \in 1..Len(str) :
                  str[k] = token /\ \A j \in 1..(k - 1) : str[j] # token
       IN SubSeq(str, 1, i - 1) \o Substitution(value, token)
            \o SubSeq(str, i + 1, Len(str))

\* whatsappMessage.replace('{nome}', ...).replace('{valor}', ...)
\*   .replace('{dias}', ...).replace('{vencimento}', ...)
MessageOf(template, name, amountPaid, days, dueDate) ==
  replace(replace(replace(replace(template, "{nome}", <<name>>),
                          "{valor}", formatCurrency(amountPaid)),
                  "{dias}", DaysText(days)),
          "{vencimento}", VencimentoText(dueDate))

\* the message a reminder button opens WhatsApp with; in a row of the
\* expiring list today stands for a due date that is no date
Message(view, c) ==
  IF view = "Dashboard.notifyBanner"
  THEN MessageOf(whatsappMessage, c.name, c.amountPaid, DashboardDays(c),
                 parseLocalDate(c.dueDate))
  ELSE IF view = "Dashboard.handleWhatsAppClick"
  THEN LET dRaw == parseLocalDate(c.dueDate)
           customerDueDate == IF ~IsValidDate(dRaw) THEN TodayMidnight ELSE dRaw
       IN MessageOf(whatsappMessage, c.name, c.amountPaid,
                    differenceInDays(customerDueDate, TodayMidnight), customerDueDate)
  ELSE MessageOf(whatsappMessage, c.name, c.amountPaid, CustomersDaysDiff(c),
                 parseLocalDateCustomers(c.dueDate))

\* what a reminder button writes: lastNotifiedDate = format(today)
MarkNotified(view, id) ==
  updateCustomer(customers, id, [lastNotifiedDate |-> formatYMD(TodayOf(view))])

\* 'Notificar Agora' of the banner: the first pending notification
notifyBanner ==
  /\ pendingNotifications # << >>
  /\ customers' = MarkNotified("Dashboard", pendingNotifications[1].id)
  /\ lastOp' = [op |-> "Dashboard.notifyBanner",
                input |-> [id |-> pendingNotifications[1].id,
                           message |-> Message("Dashboard.notifyBanner",
                                               pendingNotifications[1])]]
  /\ UNCHANGED <<rest, build, now, servers, plans, renewals, manualAdditions, backup>>

\* handleWhatsAppClick of a row of the expiring list
notifyExpiring(c) ==
  /\ customers' = MarkNotified("Dashboard", c.id)
  /\ lastOp' = [op |-> "Dashboard.handleWhatsAppClick",
                input |-> [id |-> c.id,
                           message |-> Message("Dashboard.handleWhatsAppClick", c)]]
  /\ UNCHANGED <<rest, build, now, servers, plans, renewals, manualAdditions, backup>>

\* the WhatsApp button of a row of the customers list
notifyCustomers(c) ==
  /\ customers' = MarkNotified("Customers", c.id)
  /\ lastOp' = [op |-> "Customers.whatsApp",
                input |-> [id |-> c.id, message |-> Message("Customers.whatsApp", c)]]
  /\ UNCHANGED <<rest, build, now, servers, plans, renewals, manualAdditions, backup>>

\* Plans.handleSaveMessage: the text of the editor becomes the template
handleSaveMessage(messageInput) ==
  /\ whatsappMessage' = messageInput
  /\ lastOp' = [op |-> "Plans.handleSaveMessage", input |-> [message |-> messageInput]]
  /\ UNCHANGED <<sync, exported, build, now, customers, servers, plans, renewals,
                 manualAdditions, backup>>

(***************************************************************************)
(* Servers view, Plans view.                                               *)
(***************************************************************************)
\* Servers.handleSubmit: editing is << >> or <<the server being edited>>
handleSubmitServer(editing, formData) ==
  LET cost == ParseAmount(formData.costPerActive)
  IN /\ lastOp' = [op |-> "Servers.handleSubmit",
                   input |-> [editing |-> editing, formData |-> formData]]
     /\ IF isNaN(cost) THEN UNCHANGED servers
        ELSE IF editing # << >>
        THEN servers' = updateServer(servers, editing[1].id,
                                     [name |-> formData.name, costPerActive |-> cost])
        ELSE servers' = addServer(servers,
                                  [name |-> formData.name, costPerActive |-> cost],
                                  uuidv4(1))
     /\ UNCHANGED <<rest, build, now, customers, plans, renewals, manualAdditions, backup>>

\* variant of confirmDeleteServer that also drops the server's renewals
confirmDeleteServerCascade(server) ==
  LET Other(r) == r.serverId # server.id
  IN /\ servers' = RemoveById(servers, server.id)
     /\ renewals' = SelectSeq(renewals, Other)
     /\ lastOp' = [op |-> "Servers.delete", input |-> [id |-> server.id]]
     /\ UNCHANGED <<rest, build, now, customers, plans, manualAdditions, backup>>

confirmDeleteServer(server) ==
  /\ servers' = deleteServer(servers, server.id)
  /\ lastOp' = [op |-> "Servers.delete", input |-> [id |-> server.id]]
  /\ UNCHANGED <<rest, build, now, customers, plans, renewals, manualAdditions, backup>>

\* Plans.handleSavePlan
handleSavePlan(editingPlan, priceInput) ==
  LET price == ParseAmount(priceInput)
  IN /\ lastOp' = [op |-> "Plans.handleSavePlan",
                   input |-> [id |-> editingPlan.id, priceInput |-> priceInput]]
     /\ IF ~isNaN(price) THEN plans' = updatePlan(plans, editingPlan.id, price)
        ELSE UNCHANGED plans
     /\ UNCHANGED <<rest, build, now, customers, servers, renewals, manualAdditions, backup>>

\* Plans.handleAddMoney
handleAddMoney(moneyAction, moneyAmount) ==
  LET parsed == ParseAmount(moneyAmount)
      amount == IF moneyAction = "remove" THEN Minus(Num(0), parsed) ELSE parsed
  IN /\ lastOp' = [op |-> "Plans.handleAddMoney",
                   input |-> [moneyAction |-> moneyAction,
                              moneyAmount |-> moneyAmount]]
     /\ IF ~isNaN(parsed) /\ GtZero(parsed)
        THEN manualAdditions' =
               addManualAddition(manualAdditions,
                                 [amount |-> amount, date |-> now], uuidv4(1))
        ELSE UNCHANGED manualAdditions
     /\ UNCHANGED <<rest, build, now, customers, servers, plans, renewals, backup>>

(***************************************************************************)
(* Customers view: spreadsheet import (handleFileUpload).  A row of the    *)
(* sheet is [nome, servidor, plano, valor, vencimento]; vencimento is      *)
(* [kind, date] with kind "empty" (no cell), "Date" (a date cell),         *)
(* "DD/MM/YYYY" (a string of three parts; date is << >> when the parts     *)
(* are no numbers) or "text" (any other string).                           *)
(***************************************************************************)
\* String.prototype.toLowerCase on the names that occur
toLowerCase(str) ==
  CASE str = "S1" -> "s1"
    [] str = "Mensal" -> "mensal"
    [] str = "MENSAL" -> "mensal"
    [] str = "Trimestral" -> "trimestral"
    [] str = "Gratuito" -> "gratuito"
    [] OTHER -> str

\* String.prototype.trim on the names that occur
trim(str) == IF str = " " THEN "" ELSE str

\* valorRaw.replace(',', '.').replace(/[^\d.-]/g, '')
CleanValor(text) ==
  LET Keep(ch) == ch \in Digits \cup {".", "-"}
  IN SelectSeq(ReplaceComma(text), Keep)

\* the customer and the renewal one row with a name yields
ImportRow(row, customerId) ==
  LET SameServer(sv) == toLowerCase(sv.name) = toLowerCase(trim(row.servidor))
      SamePlan(pl) == toLowerCase(pl.name) = toLowerCase(trim(row.plano))
      matchedServer ==
        FindFirst(servers, {i \in 1..Len(servers) : SameServer(servers[i])})
      matchedPlan == FindFirst(plans, {i \in 1..Len(plans) : SamePlan(plans[i])})
      serverId == IF matchedServer # << >> THEN matchedServer[1].id
                  ELSE IF servers # << >> THEN servers[1].id ELSE 0
      planId == IF matchedPlan # << >> THEN matchedPlan[1].id
                ELSE IF plans # << >> THEN plans[1].id ELSE ""
      planMonths == IF matchedPlan # << >> THEN matchedPlan[1].months
                    ELSE MonthsOrOne(IF plans # << >> THEN <<plans[1]>> ELSE << >>)
      parsedVal == parseFloat(CleanValor(row.valor))
      amountPaid == IF row.valor # << >> /\ ~isNaN(parsedVal) THEN parsedVal
                    ELSE IF matchedPlan # << >> THEN matchedPlan[1].defaultPrice
                    ELSE Num(0)
      dueDate == IF row.vencimento.kind \in {"Date", "DD/MM/YYYY", "serial"}
                 THEN row.vencimento.date
                 ELSE formatYMD(addMonths(now, planMonths))
      \* matchedServer?.costPerActive || servers[0]?.costPerActive || 0
      perActive ==
        IF matchedServer # << >> /\ OrZero(matchedServer[1].costPerActive) # Num(0)
        THEN matchedServer[1].costPerActive
        ELSE IF servers # << >> THEN OrZero(servers[1].costPerActive) ELSE Num(0)
  IN [customer |-> [id |-> customerId, name |-> trim(row.nome),
                    serverId |-> serverId, planId |-> planId,
                    amountPaid |-> amountPaid, dueDate |-> dueDate,
                    lastNotifiedDate |-> << >>],
      renewal |-> [customerId |-> customerId, serverId |-> serverId,
                   planId |-> planId, amount |-> amountPaid,
                   cost |-> Num(perActive.v * planMonths), date |-> now]]

\* reader.onload of handleFileUpload on the rows of the first sheet.  A
\* Vencimento cell of kind "serial" is a number: parse_date_code gives its
\* calendar date, or null (date << >>) when the number is negative or past
\* 31/12/9999, and reading the day of null throws into the catch around
\* the whole loop.
handleFileUpload(jsonData) ==
  LET HasName(row) == trim(row.nome) # ""
      valid == SelectSeq(jsonData, HasName)
      Throws(row) == row.vencimento.kind = "serial" /\ row.vencimento.date = << >>
      n == Len(valid)
      made == [i \in 1..n |-> ImportRow(valid[i], uuidv4(i))]
      newCustomers == [i \in 1..n |-> made[i].customer]
      newRenewals == [i \in 1..n |-> [id |-> uuidv4(n + i)] @@ made[i].renewal]
  IN /\ lastOp' = [op |-> "Customers.handleFileUpload",
                   input |-> [jsonData |-> jsonData]]
     /\ IF n > 0 /\ ~\E i \in 1..n : Throws(valid[i])
        THEN /\ customers' = customers \o newCustomers
             /\ renewals' = renewals \o newRenewals
        ELSE UNCHANGED <<customers, renewals>>
     /\ UNCHANGED <<rest, build, now, servers, plans, manualAdditions, backup>>

(***************************************************************************)
(* The reminder template.  A string of the message is a sequence of        *)
(* pieces: a piece is one of the four tokens '{nome}', '{valor}', '{dias}',*)
(* '{vencimento}' or a stretch of text that holds no '{' (a customer name, *)
(* a digit, a separator); the text of the default templates is written     *)
(* without its accents, line breaks and emoji.                             *)
(***************************************************************************)
\* the whatsappMessage initializer when nothing is saved
DefaultMessage(b) ==
  IF b = "A"
  THEN <<"Ola ", "{nome}", "! Seu acesso esta vencendo ", "{dias}", " (",
         "{vencimento}", "). O valor para renovacao e ", "{valor}",
         ". Como deseja prosseguir?">>
  ELSE <<"Ola *", "{nome}", "*! Passando para lembrar que seu acesso vence em *",
         "{dias}", "* (dia *", "{vencimento}", "*). O valor para renovacao e de *",
         "{valor}", "*. Podemos confirmar sua renovacao?">>

\* the Storage view when no synchronisation runs.  sync is the position of
\* syncLocalToCloud: whether it runs, the collection it is sending (1
\* servers, 2 plans, 3 customers, 4 renewals, 5 manual additions, 6 the
\* message), the writes left for that collection, the writes the hosted
\* store answered with an error result, and the notice shown last
NotSyncing == [isSyncing |-> FALSE, phase |-> 0, left |-> 0, refused |-> 0,
               notice |-> "none"]

(***************************************************************************)
(* Storage view: backup export and restore, clear-all.  A backup file is   *)
(* [json, customers, servers, plans, renewals, manualAdditions]: json is   *)
(* "invalid" (JSON.parse throws), "null" (the text null), "other" (a       *)
(* number, a string, a boolean or an array: every key reads undefined) or  *)
(* "object"; a collection is <<array>> when the text holds an array under  *)
(* the key and << >> when the key is missing or holds something else.      *)
(***************************************************************************)
\* JSON.stringify writes NaN as null
ToJson(x) == IF x.t = "NaN" THEN Null ELSE x

JsonOf(seq, field) ==
  [i \in 1..Len(seq) |-> [seq[i] EXCEPT ![field] = ToJson(@)]]

\* handleExportAll: the file the operator downloads
handleExportAll ==
  /\ backup' = <<[json |-> "object",
                  customers |-> <<JsonOf(customers, "amountPaid")>>,
                  servers |-> <<JsonOf(servers, "costPerActive")>>,
                  plans |-> <<JsonOf(plans, "defaultPrice")>>,
                  renewals |-> <<JsonOf(JsonOf(renewals, "amount"), "cost")>>,
                  manualAdditions |-> <<JsonOf(manualAdditions, "amount")>>]>>
  /\ exported' = <<[customers |-> customers, servers |-> servers, plans |-> plans,
                    renewals |-> renewals, manualAdditions |-> manualAdditions]>>
  /\ lastOp' = [op |-> "Storage.handleExportAll", input |-> << >>]
  /\ UNCHANGED <<whatsappMessage, sync, build, now, customers, servers, plans,
                 renewals, manualAdditions>>

\* variant of Restored that takes an empty array for a missing key
RestoredNonEmpty(field, current) ==
  IF field # << >> /\ field[1] # << >> THEN field[1] ELSE current

\* json.key && Array.isArray(json.key) ? the array : the collection as it is
Restored(field, current) == IF field # << >> THEN field[1] ELSE current

\* variant of handleImportAll that applies the keys as they are read from
\* the text
handleImportAllAsRead(file) ==
  /\ lastOp' = [op |-> "Storage.handleImportAll", input |-> [file |-> file]]
  /\ customers' = Restored(file.customers, customers)
  /\ servers' = Restored(file.servers, servers)
  /\ plans' = Restored(file.plans, plans)
  /\ renewals' = Restored(file.renewals, renewals)
  /\ manualAdditions' = Restored(file.manualAdditions, manualAdditions)
  /\ UNCHANGED <<rest, build, now, backup>>

\* reader.onload of handleImportAll
handleImportAll(file) ==
  /\ lastOp' = [op |-> "Storage.handleImportAll", input |-> [file |-> file]]
  /\ IF file.json = "object"
     THEN /\ customers' = Restored(file.customers, customers)
          /\ servers' = Restored(file.servers, servers)
          /\ plans' = Restored(file.plans, plans)
          /\ renewals' = Restored(file.renewals, renewals)
          /\ manualAdditions' = Restored(file.manualAdditions, manualAdditions)
     ELSE UNCHANGED <<customers, servers, plans, renewals, manualAdditions>>
  /\ UNCHANGED <<rest, build, now, backup>>

\* handleClearAll (confirmed): localStorage.clear() and a reload, the store
\* starts again from nothing saved
handleClearAll ==
  /\ customers' = << >>
  /\ servers' = << >>
  /\ plans' = DefaultPlans(build)
  /\ renewals' = << >>
  /\ manualAdditions' = << >>
  /\ whatsappMessage' = DefaultMessage(build)
  /\ lastOp' = [op |-> "Storage.handleClearAll", input |-> << >>]
  /\ UNCHANGED <<sync, exported, build, now, backup>>

(***************************************************************************)
(* Store load: the page is opened again and useStore reads what the        *)
(* persistence effects saved (JSON.stringify of each collection).          *)
(***************************************************************************)
\* the plans initializer on saved plans: build A appends the free plan when
\* no plan has the id 'gratuito', build B puts it first when no plan has
\* the name 'Gratuito'
EnsureGratuito(b, loaded) ==
  IF b = "A"
  THEN IF \E i \in 1..Len(loaded) : loaded[i].id = "gratuito" THEN loaded
       ELSE Append(loaded, Plan("gratuito", "Gratuito", 1, 0))
  ELSE IF \E i \in 1..Len(loaded) : loaded[i].name = "Gratuito" THEN loaded
       ELSE <<Plan("0", "Gratuito", 1, 0)>> \o loaded

storeLoad ==
  /\ customers' = JsonOf(customers, "amountPaid")
  /\ servers' = JsonOf(servers, "costPerActive")
  /\ plans' = EnsureGratuito(build, JsonOf(plans, "defaultPrice"))
  /\ renewals' = JsonOf(JsonOf(renewals, "amount"), "cost")
  /\ manualAdditions' = JsonOf(manualAdditions, "amount")
  /\ whatsappMessage' = IF whatsappMessage = << >> THEN DefaultMessage(build)
                        ELSE whatsappMessage
  /\ sync' = NotSyncing
  /\ lastOp' = [op |-> "Store.load", input |-> << >>]
  /\ UNCHANGED <<exported, build, now, backup>>

(***************************************************************************)
(* The clock.                                                              *)
(***************************************************************************)
StartDate == <<2024, 1, 31>>

Start == [date |-> StartDate, tod |-> 0]

Tick ==
  /\ Ticks(now) - Ticks(Start) < MaxTicks
  /\ now' = IF now.tod + 1 < TicksPerDay THEN [now EXCEPT !.tod = @ + 1]
            ELSE [date |-> NextDay(now.date), tod |-> 0]
  /\ lastOp' = [op |-> "tick", input |-> << >>]
  /\ UNCHANGED <<rest, build, customers, servers, plans, renewals, manualAdditions,
                 backup, opsDone>>

(***************************************************************************)
(* Dashboard: the totals of the stats memo.                                *)
(***************************************************************************)
\* seq.reduce((acc, x) => acc + x, 0) on a sequence of numbers
RECURSIVE Reduce(_)
Reduce(nums) ==
  IF nums = << >> THEN Num(0)
  ELSE Plus(Reduce(SubSeq(nums, 1, Len(nums) - 1)), nums[Len(nums)])

Amounts(seq) == [i \in 1..Len(seq) |-> seq[i].amount]

\* variant of Costs that reads the cost as it is stored
CostsAsStored(rs) == [i \in 1..Len(rs) |-> rs[i].cost]

\* r.cost || 0
Costs(rs) == [i \in 1..Len(rs) |-> OrZero(rs[i].cost)]

grossValue == Reduce(Amounts(renewals))

totalPaidToServers == Reduce(Costs(renewals))

totalManualAdditions == Reduce(Amounts(manualAdditions))

netValue == Plus(Minus(grossValue, totalPaidToServers), totalManualAdditions)

(***************************************************************************)
(* Dashboard: the per-server summary of the stats memo.                    *)
(***************************************************************************)
\* variant of statsRow that takes the gross from the customers assigned to
\* the server
statsRowFromSnapshot(s, cs, rs) ==
  LET Mine(r) == r.serverId = s.id
      Assigned(c) == c.serverId = s.id
      serverRenewals == SelectSeq(rs, Mine)
      paid == [i \in 1..Len(SelectSeq(cs, Assigned)) |->
                 SelectSeq(cs, Assigned)[i].amountPaid]
  IN [name |-> s.name,
      active |-> Cardinality({i \in 1..Len(cs) :
                               cs[i].serverId = s.id /\ DashboardIsActive(cs[i])}),
      monthlyGross |-> Reduce(paid),
      monthlyCost |-> Reduce(Costs(serverRenewals)),
      accumulatedTotal |-> Reduce(paid)]

\* stats[s.id] after servers.forEach and customers.forEach: the figures of
\* the renewals of the server and the number of active customers assigned
\* to it
statsRow(s, cs, rs) ==
  LET Mine(r) == r.serverId = s.id
      serverRenewals == SelectSeq(rs, Mine)
  IN [name |-> s.name,
      active |-> Cardinality({i \in 1..Len(cs) :
                               cs[i].serverId = s.id /\ DashboardIsActive(cs[i])}),
      monthlyGross |-> Reduce(Amounts(serverRenewals)),
      monthlyCost |-> Reduce(Costs(serverRenewals)),
      accumulatedTotal |-> Reduce(Amounts(serverRenewals))]

\* variant of serverStatsOf that lists only the servers some renewal names
serverStatsOfBilled(cs, ss, rs) ==
  LET Billed(s) == \E r \in Range(rs) : r.serverId = s.id
      billed == SelectSeq(ss, Billed)
  IN [k \in 1..Len(billed) |-> statsRow(billed[k], cs, rs)]

\* Object.values(stats): one row per key in the order the keys were first
\* written, each holding what was written last under the key
serverStatsOf(cs, ss, rs) ==
  LET first == {i \in 1..Len(ss) : \A j \in 1..(i - 1) : ss[j].id # ss[i].id}
      Nth(k) == CHOOSE i \in first : Cardinality({j \in first : j < i}) = k - 1
      Last(id) == ss[CHOOSE i \in 1..Len(ss) :
                       ss[i].id = id /\ \A j \in (i + 1)..Len(ss) : ss[j].id # id]
  IN [k \in 1..Cardinality(first) |-> statsRow(Last(ss[Nth(k)].id), cs, rs)]

serverStats == serverStatsOf(customers, servers, renewals)

(***************************************************************************)
(* Servers view: the figures of a server card.                             *)
(***************************************************************************)
\* a * n of JS with n an integer
Times(a, n) == IF IsNumeric(a) THEN Num(a.v * n) ELSE NaN

\* variant of ServersActiveCustomers that takes every customer assigned to
\* the server
ServersAssignedCustomers(server) ==
  LET Assigned(c) == c.serverId = server.id
  IN SelectSeq(customers, Assigned)

ServersActiveCustomers(server) ==
  LET Active(c) == c.serverId = server.id /\ ServersIsActive(c)
  IN SelectSeq(customers, Active)

ServersCard(server) ==
  LET activeCustomers == ServersActiveCustomers(server)
      Months(c) == LET plan == FindById(plans, c.planId)
                   IN IF plan # << >> THEN plan[1].months ELSE 1
      totalGenerated ==
        Reduce([i \in 1..Len(activeCustomers) |-> activeCustomers[i].amountPaid])
      totalPaid ==
        Reduce([i \in 1..Len(activeCustomers) |->
                  Times(server.costPerActive, Months(activeCustomers[i]))])
  IN [totalActive |-> Len(activeCustomers), totalGenerated |-> totalGenerated,
      totalPaid |-> totalPaid, profit |-> Minus(totalGenerated, totalPaid)]

(***************************************************************************)
(* Storage view: the report of the selected month.  The date of a renewal  *)
(* or of a manual addition is written by toISOString and read back by      *)
(* parseISO: the same instant.                                             *)
(***************************************************************************)
InMonth(seq, selectedMonth) ==
  LET Within(x) == isWithinInterval(x.date, startOfMonth(selectedMonth),
                                    endOfMonth(selectedMonth))
  IN SelectSeq(seq, Within)

\* the monthlyStats memo on renewals rs and manual additions ms
monthlyStatsOf(rs, ms, selectedMonth) ==
  LET monthRenewals == InMonth(rs, selectedMonth)
      monthAdditions == InMonth(ms, selectedMonth)
      Positive(a) == GtZero(a.amount)
      Negative(a) == LtZero(a.amount)
      gross == Plus(Reduce(Amounts(monthRenewals)),
                    Reduce(Amounts(SelectSeq(monthAdditions, Positive))))
      cost == Plus(Reduce(Costs(monthRenewals)),
                   MathAbs(Reduce(Amounts(SelectSeq(monthAdditions, Negative)))))
  IN [gross |-> gross, cost |-> cost, net |-> Minus(gross, cost)]

monthlyStats(selectedMonth) ==
  monthlyStatsOf(renewals, manualAdditions, selectedMonth)

\* the month picker: new Date(year, month - 1)
PickMonth(year, month) == [date |-> <<year, month, 1>>, tod |-> 0]

(***************************************************************************)
(* Storage view: syncLocalToCloud.  Every await of an upsert is a step;    *)
(* the hosted store answers a write with a result without error, with a    *)
(* result that reports an error, or the call throws.                       *)
(***************************************************************************)
WriteOutcomes == {"ok", "error", "throws"}

\* the records of localStorage sent in a phase, read when the phase starts
PhaseLen(phase) ==
  CASE phase = 1 -> Len(servers)
    [] phase = 2 -> Len(plans)
    [] phase = 3 -> Len(customers)
    [] phase = 4 -> Len(renewals)
    [] phase = 5 -> Len(manualAdditions)
    [] phase = 6 -> IF whatsappMessage # << >> THEN 1 ELSE 0

\* the phases after `phase` that have something to send
PhasesAhead(phase) == {q \in (phase + 1)..6 : PhaseLen(q) > 0}

\* syncLocalToCloud up to its next await: the writes left of the phase,
\* then the next phase that has records, then the success notice and the
\* reload of the page (the store reads what it saved)
syncGoOn(phase, left, refused) ==
  IF left > 0
  THEN /\ sync' = [isSyncing |-> TRUE, phase |-> phase, left |-> left,
                   refused |-> refused, notice |-> "none"]
       /\ UNCHANGED <<customers, servers, plans, renewals, manualAdditions,
                      whatsappMessage>>
  ELSE IF PhasesAhead(phase) # {}
  THEN LET q == CHOOSE x \in PhasesAhead(phase) : \A y \in PhasesAhead(phase) : x <= y
       IN /\ sync' = [isSyncing |-> TRUE, phase |-> q, left |-> PhaseLen(q),
                      refused |-> refused, notice |-> "none"]
          /\ UNCHANGED <<customers, servers, plans, renewals, manualAdditions,
                         whatsappMessage>>
  ELSE /\ sync' = [isSyncing |-> FALSE, phase |-> 0, left |-> 0,
                   refused |-> refused, notice |-> "success"]
       /\ customers' = JsonOf(customers, "amountPaid")
       /\ servers' = JsonOf(servers, "costPerActive")
       /\ plans' = EnsureGratuito(build, JsonOf(plans, "defaultPrice"))
       /\ renewals' = JsonOf(JsonOf(renewals, "amount"), "cost")
       /\ manualAdditions' = JsonOf(manualAdditions, "amount")
       /\ UNCHANGED whatsappMessage

\* the click on the sync button (enabled while nothing is syncing), the
\* question confirmed
syncLocalToCloud ==
  /\ ~sync.isSyncing
  /\ syncGoOn(0, 0, 0)
  /\ lastOp' = [op |-> "Storage.syncLocalToCloud", input |-> << >>]
  /\ UNCHANGED <<exported, build, now, backup>>

\* an awaited upsert comes back: its result is dropped whatever it
\* reports; an exception goes to the catch (failure notice) and the
\* finally
syncWrite(outcome) ==
  /\ sync.isSyncing
  /\ lastOp' = [op |-> "Storage.syncLocalToCloud.upsert", input |-> [outcome |-> outcome]]
  /\ IF outcome = "throws"
     THEN /\ sync' = [isSyncing |-> FALSE, phase |-> 0, left |-> 0,
                      refused |-> sync.refused, notice |-> "failure"]
          /\ UNCHANGED <<customers, servers, plans, renewals, manualAdditions,
                         whatsappMessage>>
     ELSE syncGoOn(sync.phase, sync.left - 1,
                   sync.refused + (IF outcome = "error" THEN 1 ELSE 0))
  /\ UNCHANGED <<exported, build, now, backup>>

(***************************************************************************)
(* What the operator may enter.                                            *)
(***************************************************************************)
AmountTexts == {<<"3", "0">>, <<"3", "5", ",", "5">>, <<"a", "b", "c">>}

CostTexts == {<<"5">>, <<"0">>, <<"x">>}

PriceTexts == {<<"4", "0">>, <<"x">>}

MoneyTexts == {<<"1", "0">>, <<"0">>, <<"x">>}

MoneyActions == {"add", "remove"}

\* the plans the operator picks in the forms, and the one whose price is edited
FormPlanIds == {"1", "2"}

EditablePlanIds == {"1"}

\* the due dates the operator enters, in days from today
DueOffsets == {0, 7}

Ids(seq) == {seq[i].id : i \in 1..Len(seq)}

\* the select of a form offers the servers; it keeps the value it was
\* opened with
ServerChoices(current) == Ids(servers) \cup current

PlanChoices(offered, current) == (Ids(plans) \cap offered) \cup current

ImportRows ==
  {[nome |-> "Bia", servidor |-> "s1", plano |-> "MENSAL",
    valor |-> <<"R", "$", "2", "0", ",", "5">>,
    vencimento |-> [kind |-> "DD/MM/YYYY", date |-> AddDays(StartDate, 7)]],
   [nome |-> "Caio", servidor |-> "", plano |-> "", valor |-> << >>,
    vencimento |-> [kind |-> "empty", date |-> << >>]],
   [nome |-> "Davi", servidor |-> "S1", plano |-> "Semanal", valor |-> <<"x">>,
    vencimento |-> [kind |-> "DD/MM/YYYY", date |-> << >>]],
   [nome |-> " ", servidor |-> "S1", plano |-> "Mensal", valor |-> <<"9">>,
    vencimento |-> [kind |-> "text", date |-> << >>]],
   [nome |-> "Edu", servidor |-> "S1", plano |-> "Mensal", valor |-> <<"9">>,
    vencimento |-> [kind |-> "serial", date |-> << >>]]}

\* the sheets made of the given rows
Sheets(rows) == UNION {[1..n -> rows] : n \in 1..MaxRows}

NoFile == [json |-> "invalid", customers |-> << >>, servers |-> << >>,
           plans |-> << >>, renewals |-> << >>, manualAdditions |-> << >>]

\* a backup written by an early version on another installation: renewals
\* without cost, no manual additions, no plans
LegacyFile ==
  [json |-> "object",
   customers |-> << <<[id |-> 102, name |-> "Eva", serverId |-> 103,
                       planId |-> "1", amountPaid |-> Num(2000),
                       dueDate |-> <<2024, 2, 7>>,
                       lastNotifiedDate |-> << >>]>> >>,
   servers |-> << <<[id |-> 103, name |-> "S9", costPerActive |-> Num(400)]>> >>,
   plans |-> << >>,
   renewals |-> << <<[id |-> 101, customerId |-> 102, serverId |-> 103,
                      planId |-> "1", amount |-> Num(2000), cost |-> Undefined,
                      date |-> [date |-> <<2024, 1, 7>>, tod |-> 0]]>> >>,
   manualAdditions |-> << >>]

\* a backup holding only customers: Ana due in a week, a customer whose
\* name is the text {valor} due in three days
MessageFile ==
  [NoFile EXCEPT
     !.json = "object",
     !.customers = << <<[id |-> 201, name |-> "Ana", serverId |-> 0,
                         planId |-> "1", amountPaid |-> Num(3000),
                         dueDate |-> <<2024, 2, 7>>, lastNotifiedDate |-> << >>],
                        [id |-> 202, name |-> "{valor}", serverId |-> 0,
                         planId |-> "1", amountPaid |-> Num(123450),
                         dueDate |-> <<2024, 2, 3>>, lastNotifiedDate |-> << >>]>> >>]

\* a backup whose plans key holds an empty array and nothing else
PlanlessFile == [NoFile EXCEPT !.json = "object", !.plans = << << >> >>]

\* a backup holding only customers, latest due date first: due eight and
\* seven days after the start date, on a date that is no date (as an import
\* leaves it), on the start date, seven and eight days before it
QueueFile ==
  [NoFile EXCEPT
     !.json = "object",
     !.customers =
       << [i \in 1..6 |->
             [id |-> 200 + i, name |-> "Eva", serverId |-> 103, planId |-> "1",
              amountPaid |-> Num(2000),
              dueDate |-> IF i = 3 THEN << >>
                          ELSE AddDays(StartDate, <<8, 7, 0, 0, 0 - 7, 0 - 8>>[i]),
              lastNotifiedDate |-> << >>]] >>]

\* files the operator may pick: a text that is no JSON, one that breaks off
\* after the customers and renewals keys, null, a number, an object without
\* any of the five keys, objects whose keys hold empty arrays, and the two
\* backups above
RestoreFiles ==
  {NoFile,
   [NoFile EXCEPT !.customers = << << >> >>, !.renewals = << << >> >>],
   [NoFile EXCEPT !.json = "null"],
   [NoFile EXCEPT !.json = "other"],
   [NoFile EXCEPT !.json = "object"],
   [NoFile EXCEPT !.json = "object", !.customers = << << >> >>],
   [NoFile EXCEPT !.json = "object", !.servers = << << >> >>,
                  !.manualAdditions = << << >> >>],
   PlanlessFile, LegacyFile}

FixedFiles == {NoFile, [NoFile EXCEPT !.json = "null"], LegacyFile}

(***************************************************************************)
(* The operator's steps.  Each takes the values the operator may enter and *)
(* counts as one operation.                                                *)
(***************************************************************************)
OneMore == opsDone < MaxOps /\ opsDone' = opsDone + 1

NewCustomer(planIds, amounts, dueOffsets) ==
  /\ OneMore
  /\ \E serverId \in Ids(servers), planId \in PlanChoices(planIds, {}),
        amountPaid \in amounts, offset \in dueOffsets :
       handleSubmit(<< >>, [name |-> "Ana", serverId |-> serverId,
                            planId |-> planId, amountPaid |-> amountPaid,
                            dueDate |-> AddDays(now.date, offset)])

EditCustomer(planIds, amounts, dueOffsets) ==
  /\ OneMore
  /\ \E c \in Range(customers) :
       \E serverId \in ServerChoices({c.serverId}),
          planId \in PlanChoices(planIds, {c.planId}), amountPaid \in amounts,
          dueDate \in {AddDays(now.date, k) : k \in dueOffsets} \cup {c.dueDate} :
         handleSubmit(<<c>>, [name |-> c.name, serverId |-> serverId,
                              planId |-> planId, amountPaid |-> amountPaid,
                              dueDate |-> dueDate])

DeleteCustomer == OneMore /\ \E c \in Range(customers) : confirmDelete(c)

\* the renew dialog opened on customer c: the operator picks server, plan
\* and amount and confirms
RenewOf(view, c, planIds, amounts) ==
  \E serverId \in ServerChoices({c.serverId}),
     planId \in PlanChoices(planIds, {c.planId}), amountPaid \in amounts :
    confirmRenew(view, [customerId |-> c.id, serverId |-> serverId,
                        planId |-> planId, amountPaid |-> amountPaid])

\* the dashboard offers the renew dialog on the rows of the expiring list
RenewDashboard(planIds, amounts) ==
  /\ OneMore
  /\ \E c \in Range(expiringCustomers) : RenewOf("Dashboard", c, planIds, amounts)

\* the customers view offers it on every row
RenewCustomers(planIds, amounts) ==
  /\ OneMore
  /\ \E c \in Range(customers) : RenewOf("Customers", c, planIds, amounts)

\* the templates the operator saves: a token twice, a name before the
\* amount, nothing at all
Templates ==
  {<<"{nome}", " ", "{nome}", ", ", "{dias}", ", ", "{vencimento}">>,
   <<"{nome}", ": ", "{valor}">>,
   << >>}

SaveMessage(templates) ==
  OneMore /\ \E messageInput \in templates : handleSaveMessage(messageInput)

SyncLocalToCloud == OneMore /\ syncLocalToCloud

SyncWrite == UNCHANGED opsDone /\ \E outcome \in WriteOutcomes : syncWrite(outcome)

NotifyBanner == OneMore /\ notifyBanner

NotifyExpiring == OneMore /\ \E c \in Range(expiringCustomers) : notifyExpiring(c)

NotifyCustomers == OneMore /\ \E c \in Range(customers) : notifyCustomers(c)

NewServer(costs) ==
  /\ OneMore
  /\ \E cost \in costs :
       handleSubmitServer(<< >>, [name |-> "S1", costPerActive |-> cost])

EditServer(costs) ==
  /\ OneMore
  /\ \E sv \in Range(servers), cost \in costs :
       handleSubmitServer(<<sv>>, [name |-> sv.name, costPerActive |-> cost])

DeleteServer == OneMore /\ \E sv \in Range(servers) : confirmDeleteServer(sv)

\* the price editor opens on any row of the plans list
SavePlan(planIds, prices) ==
  /\ OneMore
  /\ \E pl \in Range(plans), price \in prices :
       pl.id \in planIds /\ handleSavePlan(pl, price)

AddMoney(actions, texts) ==
  /\ OneMore
  /\ \E action \in actions, text \in texts : handleAddMoney(action, text)

ImportSheet(rows) == OneMore /\ \E sheet \in Sheets(rows) : handleFileUpload(sheet)

ExportBackup == OneMore /\ handleExportAll

RestoreBackup(files) ==
  OneMore /\ \E file \in files \cup Range(backup) : handleImportAll(file)

ClearAll == OneMore /\ handleClearAll

Reload == OneMore /\ storeLoad

Init ==
  /\ build \in Builds
  /\ now = Start
  /\ customers = << >>
  /\ servers = << >>
  /\ plans = DefaultPlans(build)
  /\ renewals = << >>
  /\ manualAdditions = << >>
  /\ backup = << >>
  /\ lastOp = [op |-> "init", input |-> << >>]
  /\ opsDone = 0
  /\ whatsappMessage = DefaultMessage(build)
  /\ sync = NotSyncing
  /\ exported = << >>

Next ==
  \/ Tick
  \/ NewCustomer(FormPlanIds, AmountTexts, DueOffsets)
  \/ EditCustomer(FormPlanIds, AmountTexts, DueOffsets)
  \/ DeleteCustomer
  \/ RenewDashboard(FormPlanIds, AmountTexts)
  \/ RenewCustomers(FormPlanIds, AmountTexts)
  \/ NotifyBanner
  \/ NotifyExpiring
  \/ NotifyCustomers
  \/ NewServer(CostTexts)
  \/ EditServer(CostTexts)
  \/ DeleteServer
  \/ SavePlan(Ids(plans), PriceTexts)
  \/ AddMoney(MoneyActions, MoneyTexts)
  \/ ImportSheet(ImportRows)
  \/ ExportBackup
  \/ RestoreBackup(FixedFiles)
  \/ ClearAll
  \/ Reload
  \/ SaveMessage(Templates)
  \/ SyncLocalToCloud
  \/ SyncWrite

Spec == Init /\ [][Next]_vars

(***************************************************************************)
(* Due dates: the clock, one kind of server, customers due on the day they *)
(* are created, the two renew dialogs with an amount that parses.          *)
(***************************************************************************)
NextDates ==
  \/ Tick
  \/ NewServer({<<"5">>})
  \/ NewCustomer({"1"}, {<<"3", "0">>}, {0})
  \/ RenewDashboard(FormPlanIds, {<<"3", "5", ",", "5">>})
  \/ RenewCustomers(FormPlanIds, {<<"3", "5", ",", "5">>})

SpecDates == Init /\ [][NextDates]_vars

(***************************************************************************)
(* Renewing at one instant: the customer form and the two renew dialogs    *)
(* with amounts that parse and amounts that do not.                        *)
(***************************************************************************)
NextRenew ==
  \/ NewServer({<<"5">>})
  \/ NewCustomer({"1"}, {<<"3", "0">>, <<"a", "b", "c">>}, {0})
  \/ RenewDashboard(FormPlanIds, {<<"3", "5", ",", "5">>, <<"a", "b", "c">>})
  \/ RenewCustomers(FormPlanIds, {<<"3", "5", ",", "5">>, <<"a", "b", "c">>})

SpecRenew == Init /\ [][NextRenew]_vars

(***************************************************************************)
(* Renewals of deleted servers: servers created and deleted, customers     *)
(* created on them and renewed, for a price or for nothing.                *)
(***************************************************************************)
NextOrphans ==
  \/ NewServer({<<"5">>})
  \/ DeleteServer
  \/ NewCustomer({"1"}, {<<"3", "0">>, <<"0">>}, {0})
  \/ RenewCustomers({"1"}, {<<"3", "0">>, <<"0">>})

SpecOrphans == Init /\ [][NextOrphans]_vars

(***************************************************************************)
(* The backup round trip: an early backup restored, its customer renewed   *)
(* for a price or with an amount that is no number, the backup exported,   *)
(* the customer deleted, the exported backup restored.                     *)
(***************************************************************************)
NextRoundTrip ==
  \/ RestoreBackup({LegacyFile})
  \/ RenewCustomers({"1"}, {<<"3", "0">>, <<"a", "b", "c">>})
  \/ DeleteCustomer
  \/ ExportBackup

SpecRoundTrip == Init /\ [][NextRoundTrip]_vars

(***************************************************************************)
(* The reminder message: customers restored from a backup, the template    *)
(* edited, the three reminder buttons, the clock.                          *)
(***************************************************************************)
NextMessage ==
  \/ Tick
  \/ RestoreBackup({MessageFile})
  \/ SaveMessage(Templates)
  \/ NotifyBanner
  \/ NotifyExpiring
  \/ NotifyCustomers

SpecMessage == Init /\ [][NextMessage]_vars

(***************************************************************************)
(* The cloud synchronisation: servers and manual additions entered, the    *)
(* sync button, the answers of the hosted store.                           *)
(***************************************************************************)
NextSync ==
  \/ NewServer({<<"5">>})
  \/ AddMoney({"add"}, {<<"1", "0">>})
  \/ SyncLocalToCloud
  \/ SyncWrite

SpecSync == Init /\ [][NextSync]_vars

(***************************************************************************)
(* The ledger: a backup of an early version restored, the clock across the *)
(* end of a month, renewals of the restored customer, manual additions and *)
(* removals.                                                               *)
(***************************************************************************)
NextLedger ==
  \/ Tick
  \/ RenewCustomers({"1"}, {<<"3", "5", ",", "5">>})
  \/ AddMoney(MoneyActions, {<<"1", "0">>, <<"0">>})
  \/ RestoreBackup({LegacyFile})

SpecLedger == Init /\ [][NextLedger]_vars

(***************************************************************************)
(* Reminders: a restored customer due in a week, the three reminder        *)
(* buttons, the clock, the customer form on the stored customer, delete,   *)
(* renew, backup export and restore.                                       *)
(***************************************************************************)
NextNotify ==
  \/ Tick
  \/ RestoreBackup({LegacyFile})
  \/ EditCustomer({"1"}, {<<"3", "0">>}, {})
  \/ DeleteCustomer
  \/ RenewDashboard({"1"}, {<<"3", "0">>})
  \/ NotifyBanner
  \/ NotifyExpiring
  \/ NotifyCustomers
  \/ ExportBackup

SpecNotify == Init /\ [][NextNotify]_vars

(***************************************************************************)
(* Every operation of the views at one instant: customers created, edited, *)
(* deleted, renewed, imported and reminded, servers added, edited and      *)
(* deleted, a plan price edited, a manual addition.                        *)
(***************************************************************************)
NextOps ==
  \/ NewServer({<<"5">>})
  \/ EditServer({<<"0">>})
  \/ DeleteServer
  \/ NewCustomer({"1"}, {<<"3", "0">>}, {7})
  \/ EditCustomer({}, {<<"3", "5", ",", "5">>}, {})
  \/ DeleteCustomer
  \/ RenewDashboard({"1"}, {<<"3", "0">>})
  \/ RenewCustomers({"1"}, {<<"3", "0">>})
  \/ NotifyBanner
  \/ NotifyExpiring
  \/ NotifyCustomers
  \/ SavePlan(EditablePlanIds, {<<"4", "0">>})
  \/ AddMoney({"add"}, {<<"1", "0">>})
  \/ ImportSheet({row \in ImportRows : row.nome = "Bia"})

SpecOps == Init /\ [][NextOps]_vars

(***************************************************************************)
(* The plans: the price editor on every plan, the store loaded again, a    *)
(* backup exported and restored, a backup with an empty list of plans.     *)
(***************************************************************************)
NextPlans ==
  \/ SavePlan(Ids(plans), {<<"4", "0">>})
  \/ Reload
  \/ ExportBackup
  \/ RestoreBackup({PlanlessFile})

SpecPlans == Init /\ [][NextPlans]_vars

(***************************************************************************)
(* Servers and their customers: servers added and deleted, customers       *)
(* created on a plan of one or of three months, their amount edited,       *)
(* renewed from the dashboard and from the customers list, the plans       *)
(* emptied by a restored backup, the clock across midnight.                *)
(***************************************************************************)
NextFigures ==
  \/ Tick
  \/ NewServer({<<"5">>})
  \/ DeleteServer
  \/ NewCustomer(FormPlanIds, {<<"3", "0">>}, {0})
  \/ EditCustomer({}, {<<"3", "5", ",", "5">>}, {})
  \/ RenewDashboard(FormPlanIds, {<<"3", "0">>})
  \/ RenewCustomers(FormPlanIds, {<<"3", "0">>})
  \/ RestoreBackup({PlanlessFile})

SpecFigures == Init /\ [][NextFigures]_vars

(***************************************************************************)
(* The expiring list: customers restored from a backup with due dates      *)
(* around the two ends of the window and one that is no date, customers    *)
(* deleted, the clock across midnight.                                     *)
(***************************************************************************)
NextQueue ==
  \/ Tick
  \/ RestoreBackup({QueueFile})
  \/ DeleteCustomer

SpecQueue == Init /\ [][NextQueue]_vars

(***************************************************************************)
(* Backups: a server, a customer and a manual addition entered, a backup   *)
(* exported, a file restored.                                              *)
(***************************************************************************)
NextRestore ==
  \/ NewServer({<<"5">>})
  \/ NewCustomer({"1"}, {<<"3", "0">>}, {0})
  \/ AddMoney({"add"}, {<<"1", "0">>})
  \/ ExportBackup
  \/ RestoreBackup(RestoreFiles)

SpecRestore == Init /\ [][NextRestore]_vars

(***************************************************************************)
(* Spreadsheets: a server added, sheets imported whose rows are a customer *)
(* with a due date, a row without a name and a customer whose Vencimento   *)
(* cell holds the number 20240215.                                         *)
(***************************************************************************)
NextImport ==
  \/ NewServer({<<"5">>})
  \/ ImportSheet({row \in ImportRows : row.nome \in {"Bia", " ", "Edu"}})

SpecImport == Init /\ [][NextImport]_vars

(***************************************************************************)
(* The forms: server form, customer form, price editor and manual-addition *)
(* dialog filled with numbers and with text that is no number.             *)
(***************************************************************************)
NextForms ==
  \/ NewServer(CostTexts)
  \/ EditServer(CostTexts)
  \/ NewCustomer({"1"}, AmountTexts, {0})
  \/ EditCustomer({}, AmountTexts, {})
  \/ SavePlan(EditablePlanIds, PriceTexts)
  \/ AddMoney(MoneyActions, MoneyTexts)

SpecForms == Init /\ [][NextForms]_vars

(***************************************************************************)
(* Import next to servers of different cost: the server S9 of a restored   *)
(* backup, a server S1 added with cost 0 or 5, sheets whose rows name S1.  *)
(***************************************************************************)
NextCosts ==
  \/ RestoreBackup({LegacyFile})
  \/ NewServer({<<"0">>, <<"5">>})
  \/ ImportSheet({row \in ImportRows : row.nome = "Bia"})

SpecCosts == Init /\ [][NextCosts]_vars

Views == {"Dashboard", "Customers"}

RenewOps == {"Dashboard.confirmRenew", "Customers.confirmRenew"}

\* the calendar day ymd moved by m months: the same day of the month, the
\* last day of the month when that month is shorter
PlusMonths(ymd, m) ==
  LET index == ymd[1] * 12 + (ymd[2] - 1) + m
      year == index \div 12
      month == (index % 12) + 1
      last == DaysInMonth(year, month)
  IN <<year, month, IF ymd[3] > last THEN last ELSE ymd[3]>>

\* difference in whole calendar days from today to the day ymd
CalendarDaysUntil(ymd) == DayNumber(ymd) - DayNumber(now.date)

\* C1: after a new customer is created through the customer form (no
\* customer being edited, a parsable amount), exactly one renewal carries
\* the id of the customer record that was stored, and its amount is the
\* stored customer's amountPaid.
C1_FoundingRenewal ==
  [][(/\ lastOp'.op = "Customers.handleSubmit"
      /\ lastOp'.input.editing = << >>
      /\ ~isNaN(ParseAmount(lastOp'.input.formData.amountPaid)))
     => LET stored == customers'[Len(customers')]
            matching == {i \in 1..Len(renewals') :
                           renewals'[i].customerId = stored.id}
        IN /\ Len(customers') = Len(customers) + 1
           /\ Cardinality(matching) = 1
           /\ \A i \in matching : renewals'[i].amount = stored.amountPaid]_vars

\* C2: a renew of an existing customer with an existing plan of m months
\* writes (current due date + m months) when the due date is today or
\* later and (today + m months) when it is before today, in the dialog of
\* the dashboard and in the dialog of the customers list alike.
C2_RenewDueDate ==
  [][lastOp'.op \in RenewOps
     => LET rd == lastOp'.input
            c == FindById(customers, rd.customerId)
            plan == FindById(plans, rd.planId)
        IN (c # << >> /\ plan # << >> /\ c[1].dueDate # << >>)
           => LET base == IF CalendarDaysUntil(c[1].dueDate) >= 0
                          THEN c[1].dueDate ELSE now.date
              IN \A c2 \in Range(customers') :
                   c2.id = rd.customerId
                   => c2.dueDate = PlusMonths(base, plan[1].months)]_vars

\* a renew confirmed in the customers list later than midnight has written
\* today plus the months of the plan: the customer was due today or expired
C2_Witness ==
  /\ lastOp.op = "Customers.confirmRenew"
  /\ now.tod > 0
  /\ \E c \in Range(customers), plan \in Range(plans) :
       /\ c.id = lastOp.input.customerId
       /\ plan.id = lastOp.input.planId
       /\ c.dueDate = PlusMonths(now.date, plan.months)

\* C3: at every call site that classifies a customer and at every time of
\* day, a customer with a valid due date d is active if and only if d is
\* today or a later calendar day.
C3_ActiveIffDueTodayOrLater ==
  \A c \in Range(customers) :
    c.dueDate # << >>
    => LET expected == CalendarDaysUntil(c.dueDate) >= 0
       IN /\ DashboardIsActive(c) = expected
          /\ ServersIsActive(c) = expected
          /\ CustomersFilterIsActive(c) = expected
          /\ CustomersBadgeIsActive(c) = expected
          /\ \A view \in Views :
               IsActiveAt(ParseDueOf(view, c.dueDate), TodayOf(view)) = expected

\* later than midnight, one customer is due today and one was due yesterday
C3_Witness ==
  /\ now.tod > 0
  /\ \E c1, c2 \in Range(customers) :
       c1.dueDate = now.date /\ c2.dueDate = PrevDay(now.date)

\* C4: a renew with customer and plan found sets that customer's serverId,
\* planId, amountPaid and dueDate and nothing else of it, leaves every
\* other customer and every stored renewal as it was, and appends one
\* renewal with the customer's id, the chosen server and plan and the new
\* amount.
C4_RenewFrame ==
  [][lastOp'.op \in RenewOps
     => LET rd == lastOp'.input
            c == FindById(customers, rd.customerId)
            plan == FindById(plans, rd.planId)
        IN (c # << >> /\ plan # << >>)
           => /\ Len(customers') = Len(customers)
              /\ \A i \in 1..Len(customers) :
                   customers'[i] =
                     IF customers[i].id = rd.customerId
                     THEN [customers[i] EXCEPT
                             !.serverId = rd.serverId,
                             !.planId = rd.planId,
                             !.amountPaid = ParseAmount(rd.amountPaid),
                             !.dueDate = customers'[i].dueDate]
                     ELSE customers[i]
              /\ Len(renewals') = Len(renewals) + 1
              /\ SubSeq(renewals', 1, Len(renewals)) = renewals
              /\ LET r == renewals'[Len(renewals')]
                 IN /\ r.customerId = rd.customerId
                    /\ r.serverId = rd.serverId
                    /\ r.planId = rd.planId
                    /\ r.amount = ParseAmount(rd.amountPaid)]_vars

\* a renew that changed the plan of one of two customers; an earlier
\* renewal of that customer still shows the plan it was made with
C4_Witness ==
  /\ lastOp.op \in RenewOps
  /\ Len(customers) >= 2
  /\ \E i \in 1..(Len(renewals) - 1) :
       /\ renewals[i].customerId = lastOp.input.customerId
       /\ renewals[i].planId # lastOp.input.planId
       /\ renewals[Len(renewals)].customerId = lastOp.input.customerId
       /\ renewals[Len(renewals)].planId = lastOp.input.planId

\* C5: a renew dialog confirmed with an amount text that is no number
\* (after the decimal comma is replaced by a point) changes nothing: the
\* customer keeps serverId, planId, amountPaid and dueDate and no renewal
\* is appended.
C5_UnparsableRenewAborts ==
  [][(lastOp'.op \in RenewOps /\ isNaN(ParseAmount(lastOp'.input.amountPaid)))
     => (customers' = customers /\ renewals' = renewals)]_vars

\* C9: at any instant the day difference of the customers list is the
\* difference in whole calendar days between the due date and today, the
\* value the dashboard computes.
C9_SameDayDifference ==
  \A c \in Range(customers) :
    c.dueDate # << >>
    => /\ CustomersDaysDiff(c) = Num(CalendarDaysUntil(c.dueDate))
       /\ CustomersDaysDiff(c) = DashboardDays(c)

RECURSIVE SumInts(_)
SumInts(ints) == IF ints = << >> THEN 0 ELSE Head(ints) + SumInts(Tail(ints))

\* the amounts of a sequence of renewals or manual additions, in cents
AmountValues(seq) == [i \in 1..Len(seq) |-> seq[i].amount.v]

\* the costs of a sequence of renewals in cents, a missing cost counting as 0
CostValues(rs) ==
  [i \in 1..Len(rs) |-> IF rs[i].cost.t = "num" THEN rs[i].cost.v ELSE 0]

AllAmountsAreNumbers ==
  /\ \A r \in Range(renewals) : r.amount.t = "num"
  /\ \A a \in Range(manualAdditions) : a.amount.t = "num"

\* C6: in every state of the collections (amounts being numbers) the
\* dashboard's grossValue is the sum of amount over all renewals,
\* totalPaidToServers the sum of cost over all renewals with a missing cost
\* counting as 0, and netValue is (grossValue - totalPaidToServers) plus
\* the signed sum of all manual additions.
C6_DashboardTotals ==
  AllAmountsAreNumbers
  => /\ grossValue = Num(SumInts(AmountValues(renewals)))
     /\ totalPaidToServers = Num(SumInts(CostValues(renewals)))
     /\ netValue = Num((SumInts(AmountValues(renewals))
                          - SumInts(CostValues(renewals)))
                       + SumInts(AmountValues(manualAdditions)))

\* a renewal without cost, a renewal with a cost and a manual removal
C6_Witness ==
  /\ \E r \in Range(renewals) : r.cost = Undefined
  /\ \E r \in Range(renewals) : GtZero(r.cost)
  /\ \E a \in Range(manualAdditions) : LtZero(a.amount)

\* the months the report is asked for
ReportMonths == {<<2024, 1>>, <<2024, 2>>}

\* the entries of seq dated in the calendar month ym
DatedIn(seq, ym) ==
  LET Dated(x) == x.date.date # << >> /\ <<x.date.date[1], x.date.date[2]>> = ym
  IN SelectSeq(seq, Dated)

\* C7: the monthly report counts exactly the renewals and manual additions
\* dated from the first to the last instant of the selected month; gross is
\* the sum of their renewal amounts and positive manual additions, cost the
\* sum of their renewal costs plus the absolute value of the sum of their
\* negative manual additions, net is gross - cost.
C7_MonthlyReport ==
  AllAmountsAreNumbers
  => \A ym \in ReportMonths :
       \A selectedMonth \in {PickMonth(ym[1], ym[2])}
                              \cup (IF <<now.date[1], now.date[2]>> = ym
                                    THEN {now} ELSE {}) :
         LET rs == DatedIn(renewals, ym)
             as == DatedIn(manualAdditions, ym)
             Positive(a) == a.amount.v > 0
             Negative(a) == a.amount.v < 0
             gross == SumInts(AmountValues(rs))
                        + SumInts(AmountValues(SelectSeq(as, Positive)))
             cost == SumInts(CostValues(rs))
                       + Abs(SumInts(AmountValues(SelectSeq(as, Negative))))
         IN monthlyStats(selectedMonth) =
              [gross |-> Num(gross), cost |-> Num(cost), net |-> Num(gross - cost)]

\* a renewal dated at the last instant of January and a manual removal
\* dated at the first instant of February
C7_Witness ==
  /\ \E r \in Range(renewals) :
       r.date = [date |-> <<2024, 1, 31>>, tod |-> TicksPerDay - 1]
  /\ \E a \in Range(manualAdditions) :
       a.date = [date |-> <<2024, 2, 1>>, tod |-> 0] /\ LtZero(a.amount)

NotifyOps ==
  {"Dashboard.notifyBanner", "Dashboard.handleWhatsAppClick", "Customers.whatsApp"}

\* the customers in the dashboard's pending notifications when the
\* collection is cs and the clock shows the instant dt
PendingIdsIn(cs, dt) == Ids(pendingNotificationsOf(cs, MidnightOf(dt)))

PendingIds == PendingIdsIn(customers, now)

\* a customer due exactly 7 calendar days after today and not notified
\* today is in the pending notifications
DueInAWeekIsPending(cs, dt) ==
  \A c \in Range(cs) :
    (/\ c.dueDate # << >>
     /\ DayNumber(c.dueDate) - DayNumber(dt.date) = 7
     /\ c.lastNotifiedDate # dt.date)
    => c.id \in PendingIdsIn(cs, dt)

\* a reminder sent for a customer writes today into lastNotifiedDate and
\* takes the customer out of the pending notifications
ReminderMarks ==
  lastOp'.op \in NotifyOps
  => \A c \in Range(customers') :
       c.id = lastOp'.input.id
       => c.lastNotifiedDate = now.date /\ c.id \notin PendingIdsIn(customers', now')

\* C8: a customer due exactly 7 calendar days after today and not notified
\* today is in the dashboard's pending notifications; a reminder sent for
\* it (banner, expiring list or customers list) sets lastNotifiedDate to
\* today, and the customer is absent from the pending notifications in
\* every later state of the same calendar day.
C8_NotifiedOncePerDay ==
  [][/\ DueInAWeekIsPending(customers', now')
     /\ ReminderMarks
     /\ \A c \in Range(customers) :
          (c.lastNotifiedDate = now.date /\ now'.date = now.date)
          => \A c2 \in Range(customers') :
               c2.id = c.id => c2.id \notin PendingIdsIn(customers', now')]_vars

\* C8, with the restore of a backup set apart: a customer due exactly 7
\* calendar days after today and not notified today is in the dashboard's
\* pending notifications; a reminder sent for it sets lastNotifiedDate to
\* today, and as long as no backup is restored the customer keeps that
\* lastNotifiedDate and is absent from the pending notifications in every
\* later state of the same calendar day.
C8_NotifiedOncePerDayUnlessRestored ==
  [][/\ DueInAWeekIsPending(customers', now')
     /\ ReminderMarks
     /\ \A c \in Range(customers) :
          (/\ c.lastNotifiedDate = now.date
           /\ now'.date = now.date
           /\ lastOp'.op # "Storage.handleImportAll")
          => \A c2 \in Range(customers') :
               c2.id = c.id
               => /\ c2.lastNotifiedDate = now'.date
                  /\ c2.id \notin PendingIdsIn(customers', now')]_vars

\* later on the day of the reminder the customer is still due in a week
\* and in the expiring queue, and no longer pending
C8_Witness ==
  /\ lastOp.op = "tick"
  /\ now.tod > 0
  /\ \E c \in Range(expiringCustomers) :
       /\ CalendarDaysUntil(c.dueDate) = 7
       /\ c.lastNotifiedDate = now.date
       /\ c.id \notin PendingIds

\* C10: under every operation other than backup restore and clear-all the
\* renewals present in a state are present, with the same fields and in the
\* same order, in the next state (and so in every later one); deleting a
\* customer removes none of that customer's renewals.
C10_RenewalsAppendOnly ==
  [][lastOp'.op \notin {"Storage.handleImportAll", "Storage.handleClearAll"}
     => /\ Len(renewals') >= Len(renewals)
        /\ SubSeq(renewals', 1, Len(renewals)) = renewals]_vars

\* a customer was deleted and a renewal of that customer is still stored
C10_Witness ==
  /\ lastOp.op = "Customers.confirmDelete"
  /\ \E r \in Range(renewals) : r.customerId = lastOp.input.id

\* C11: in every state reached from empty collections by customer creation
\* through the form, spreadsheet import, customer edit, renew, reminders
\* and server and plan edits, every customer of the collection has at least
\* one renewal whose customerId is that customer's id.
C11_EveryCustomerHasRenewal ==
  \A c \in Range(customers) :
    \E r \in Range(renewals) : r.customerId = c.id

\* C12: in every state reached by store load, plan price edits and backup
\* restores the plans contain a plan named "Gratuito" whose defaultPrice
\* is 0.
C12_GratuitoPlanPresent ==
  \E p \in Range(plans) : p.name = "Gratuito" /\ p.defaultPrice = Num(0)

(***************************************************************************)
(* The per-server figures.                                                 *)
(***************************************************************************)
RenewalsOfServer(id) ==
  LET Mine(r) == r.serverId = id
  IN SelectSeq(renewals, Mine)

\* the customers assigned to the server whose due date is valid and not
\* before today
CurrentOfServer(id) ==
  LET Current(c) ==
        /\ c.serverId = id
        /\ parseLocalDate(c.dueDate).date # << >>
        /\ CalendarDaysUntil(parseLocalDate(c.dueDate).date) >= 0
  IN SelectSeq(customers, Current)

\* C13: the per-server summary of the dashboard has exactly one row per
\* server, in the order of the servers, servers without customer or renewal
\* included; the gross of a row is the sum of the amounts and its cost the
\* sum of the costs of the renewals naming the server, and its active count
\* is the number of customers assigned to the server whose due date is
\* valid and not before today.
C13_OneRowPerServer ==
  serverStats =
    [i \in 1..Len(servers) |->
       [name |-> servers[i].name,
        active |-> Len(CurrentOfServer(servers[i].id)),
        monthlyGross |-> Num(SumInts(AmountValues(RenewalsOfServer(servers[i].id)))),
        monthlyCost |-> Num(SumInts(CostValues(RenewalsOfServer(servers[i].id)))),
        accumulatedTotal |-> Num(SumInts(AmountValues(RenewalsOfServer(servers[i].id))))]]

\* a server without customer and renewal next to a server with a renewal
\* and an expired customer
C13_Witness ==
  /\ Len(serverStats) = 2
  /\ \E i, j \in 1..Len(servers) :
       /\ RenewalsOfServer(servers[i].id) = << >>
       /\ \A c \in Range(customers) : c.serverId # servers[i].id
       /\ serverStats[i].active = 0 /\ serverStats[i].monthlyGross = Num(0)
       /\ serverStats[j].monthlyGross # Num(0)
       /\ serverStats[j].monthlyCost # Num(0)
       /\ serverStats[j].active = 0
       /\ \E c \in Range(customers) : c.serverId = servers[j].id

\* the months of the plan of the customer, 1 when no plan has its planId
MonthsOfPlanOf(c) ==
  IF \E p \in Range(plans) : p.id = c.planId
  THEN (CHOOSE p \in Range(plans) : p.id = c.planId).months
  ELSE 1

\* C14: on the card of a server in the servers view, the total generated is
\* the sum of amountPaid over the customers assigned to the server whose due
\* date is not before today, the total paid is the sum over the same
\* customers of the server's costPerActive times the months of the
\* customer's plan (1 when the plan is missing), and the profit is their
\* difference; the renewals are not read.
C14_ServerCardFromCustomers ==
  \A s \in Range(servers) :
    LET cur == CurrentOfServer(s.id)
        generated == SumInts([i \in 1..Len(cur) |-> cur[i].amountPaid.v])
        paid == SumInts([i \in 1..Len(cur) |->
                           s.costPerActive.v * MonthsOfPlanOf(cur[i])])
    IN ServersCard(s) = [totalActive |-> Len(cur),
                         totalGenerated |-> Num(generated),
                         totalPaid |-> Num(paid),
                         profit |-> Num(generated - paid)]

\* a server with an expired customer and a current customer whose plan is
\* missing; the amounts of its renewals add up to something else than its
\* total generated
C14_Witness ==
  \E s \in Range(servers) :
    /\ Len(ServersAssignedCustomers(s)) > Len(CurrentOfServer(s.id))
    /\ ServersCard(s).totalGenerated # Num(0)
    /\ ServersCard(s).totalPaid # Num(0)
    /\ ServersCard(s).totalGenerated #
         Num(SumInts(AmountValues(RenewalsOfServer(s.id))))
    /\ \E c \in Range(CurrentOfServer(s.id)) :
         \A p \in Range(plans) : p.id # c.planId

(***************************************************************************)
(* The expiring list of the dashboard.                                     *)
(***************************************************************************)
\* the customer's due date is a date at most seven days from today, before
\* or after
DueWithinAWeek(c) ==
  /\ parseLocalDate(c.dueDate).date # << >>
  /\ CalendarDaysUntil(parseLocalDate(c.dueDate).date) \in (0 - 7)..7

\* C15: the expiring list of the dashboard holds exactly the customers
\* whose due date is valid and at most seven days before or after today,
\* each once, in ascending order of due date; no customer with an invalid
\* due date is in it, so none comes before a customer with a valid one.
C15_ExpiringQueue ==
  LET q == expiringCustomers
      Due(c) == DueWithinAWeek(c)
  IN /\ Range(q) = {c \in Range(customers) : DueWithinAWeek(c)}
     /\ Len(q) = Len(SelectSeq(customers, Due))
     /\ \A i, j \in 1..Len(q) :
          i < j => DayNumber(parseLocalDate(q[i].dueDate).date)
                     <= DayNumber(parseLocalDate(q[j].dueDate).date)

\* the list starts with a customer due seven days ago and ends with one due
\* in seven days, who come in the other order in the collection, and leaves
\* out a customer due in eight days and one whose due date is no date
C15_Witness ==
  /\ Len(expiringCustomers) >= 2
  /\ CalendarDaysUntil(parseLocalDate(expiringCustomers[1].dueDate).date) = 0 - 7
  /\ CalendarDaysUntil(parseLocalDate(
        expiringCustomers[Len(expiringCustomers)].dueDate).date) = 7
  /\ \E c \in Range(customers) :
       /\ parseLocalDate(c.dueDate).date # << >>
       /\ CalendarDaysUntil(parseLocalDate(c.dueDate).date) = 8
  /\ expiringCustomers # ExpiringUnsorted(customers, TodayMidnight)
  /\ \E c \in Range(customers) : parseLocalDate(c.dueDate).date = << >>

(***************************************************************************)
(* The figures and the amount kept on the customer.                        *)
(***************************************************************************)
\* the customers with another amount paid on one of them or on all of
\* them, everything else the same
AmountPaidVariants(cs) ==
  {[cs EXCEPT ![i].amountPaid = v] : i \in 1..Len(cs), v \in {Num(700), NaN}}
    \cup {[i \in 1..Len(cs) |-> [cs[i] EXCEPT !.amountPaid = v]] :
            v \in {Num(700), NaN}}

\* the money of the rows of the per-server summary
MoneyByServer(cs, ss, rs) ==
  [s \in Range(ss) |->
     <<statsRow(s, cs, rs).monthlyGross, statsRow(s, cs, rs).monthlyCost,
       statsRow(s, cs, rs).accumulatedTotal>>]

\* the report of every month on renewals rs and manual additions ms
ReportsOf(rs, ms) ==
  [ym \in ReportMonths |-> monthlyStatsOf(rs, ms, PickMonth(ym[1], ym[2]))]

\* the step saved the edit form with another amount for a customer
AmountPaidEdited ==
  /\ lastOp'.op = "Customers.handleSubmit"
  /\ Len(customers') = Len(customers)
  /\ \E i \in 1..Len(customers) :
       customers'[i].amountPaid # customers[i].amountPaid

\* C16: the money figures do not read the amount kept on the customer: the
\* gross, cost and accumulated total of every row of the per-server summary
\* are the same whatever the customers' amountPaid values are, and a saved
\* edit that changes a customer's amountPaid leaves the dashboard's gross,
\* cost and net totals, the per-server money and the report of every month
\* as they were.
C16_FiguresIgnoreAmountPaid ==
  [][/\ \A alt \in AmountPaidVariants(customers') :
          MoneyByServer(alt, servers', renewals')
            = MoneyByServer(customers', servers', renewals')
     /\ AmountPaidEdited =>
          /\ <<grossValue, totalPaidToServers, netValue>>'
               = <<grossValue, totalPaidToServers, netValue>>
          /\ ReportsOf(renewals', manualAdditions')
               = ReportsOf(renewals, manualAdditions)
          /\ MoneyByServer(customers', servers', renewals')
               = MoneyByServer(customers, servers, renewals)]_vars

\* an edit has changed the amount of a customer whose server has a renewal:
\* the gross of the server's row is not the amount kept on the customer
C16_Witness ==
  /\ lastOp.op = "Customers.handleSubmit"
  /\ \E c \in Range(customers), i \in 1..Len(servers) :
       /\ c.serverId = servers[i].id
       /\ Len(ServersAssignedCustomers(servers[i])) = 1
       /\ serverStats[i].monthlyGross # Num(0)
       /\ serverStats[i].monthlyGross # c.amountPaid

(***************************************************************************)
(* The cost written into a renewal.                                        *)
(***************************************************************************)
\* C17: the renewal appended when a customer is created and when a customer
\* is renewed carries as cost the costPerActive of the server selected in
\* the form times the months of the selected plan, 0 when no server has the
\* selected id, the months counted as 1 when no plan has the selected id;
\* the creation (with an amount that parses) and the renew (of an existing
\* customer on an existing plan) do append the renewal in those cases.
C17_RenewalCost ==
  [][LET renew == lastOp'.op \in RenewOps
         create == /\ lastOp'.op = "Customers.handleSubmit"
                   /\ lastOp'.input.editing = << >>
         sel == IF renew THEN lastOp'.input ELSE lastOp'.input.formData
         proceeds ==
           IF renew
           THEN /\ \E c \in Range(customers) : c.id = sel.customerId
                /\ \E p \in Range(plans) : p.id = sel.planId
           ELSE ~isNaN(ParseAmount(sel.amountPaid))
         r == renewals'[Len(renewals')]
         perActive == IF \E sv \in Range(servers) : sv.id = sel.serverId
                      THEN (CHOOSE sv \in Range(servers) :
                              sv.id = sel.serverId).costPerActive.v
                      ELSE 0
     IN ((renew \/ create) /\ proceeds)
        => /\ Len(renewals') = Len(renewals) + 1
           /\ r.serverId = sel.serverId
           /\ r.planId = sel.planId
           /\ r.cost = Num(perActive * MonthsOfPlanOf(r))]_vars

\* a renew on the plan of three months has just been confirmed for a
\* customer whose server was deleted: the renewal is there and its cost is 0
C17_Witness ==
  /\ lastOp.op \in RenewOps
  /\ renewals # << >>
  /\ LET r == renewals[Len(renewals)]
     IN /\ r.customerId = lastOp.input.customerId
        /\ r.serverId = lastOp.input.serverId
        /\ \A sv \in Range(servers) : sv.id # r.serverId
        /\ MonthsOfPlanOf(r) = 3
        /\ r.cost = Num(0)
        /\ \E r2 \in Range(renewals) : r2.cost # Num(0)

(***************************************************************************)
(* Backup restore.                                                         *)
(***************************************************************************)
\* C18: restoring a file whose content is no JSON or no object changes none
\* of the five collections.
C18_MalformedRestoreChangesNothing ==
  [][(/\ lastOp'.op = "Storage.handleImportAll"
      /\ lastOp'.input.file.json # "object")
     => UNCHANGED <<customers, servers, plans, renewals, manualAdditions>>]_vars

\* the file just restored broke off after its customers and renewals keys,
\* both empty arrays, and the customers and renewals are still there
C18_Witness ==
  /\ lastOp.op = "Storage.handleImportAll"
  /\ lastOp.input.file.json = "invalid"
  /\ lastOp.input.file.customers = << << >> >>
  /\ customers # << >>
  /\ renewals # << >>

\* C19: restoring a file whose content is an object replaces each of the
\* five collections by the array the file holds under its key, an empty
\* array included, and leaves the collection as it is when the key is
\* missing or holds no array, each key on its own.
C19_KeysAppliedIndependently ==
  [][(/\ lastOp'.op = "Storage.handleImportAll"
      /\ lastOp'.input.file.json = "object")
     => LET file == lastOp'.input.file
        IN /\ customers' = IF file.customers # << >> THEN file.customers[1]
                           ELSE customers
           /\ servers' = IF file.servers # << >> THEN file.servers[1]
                         ELSE servers
           /\ plans' = IF file.plans # << >> THEN file.plans[1] ELSE plans
           /\ renewals' = IF file.renewals # << >> THEN file.renewals[1]
                          ELSE renewals
           /\ manualAdditions' = IF file.manualAdditions # << >>
                                 THEN file.manualAdditions[1]
                                 ELSE manualAdditions]_vars

\* the file just restored held an empty array under customers and nothing
\* under servers and renewals: the customers are gone, the server and the
\* renewals are still there
C19_Witness ==
  /\ lastOp.op = "Storage.handleImportAll"
  /\ lastOp.input.file.json = "object"
  /\ lastOp.input.file.customers = << << >> >>
  /\ lastOp.input.file.servers = << >>
  /\ lastOp.input.file.renewals = << >>
  /\ customers = << >>
  /\ servers # << >>
  /\ renewals # << >>

(***************************************************************************)
(* Spreadsheet import.                                                     *)
(***************************************************************************)
\* C20: an import of a sheet of which k rows have a name appends exactly k
\* customers and exactly k renewals after what was there; the appended
\* customers have ids that differ from each other and from every id there
\* was, and each has exactly one appended renewal carrying its id, with the
\* customer's amountPaid as amount; with k = 0 nothing changes.
C20_ImportAppendsNamedRows ==
  [][lastOp'.op = "Customers.handleFileUpload"
     => LET jsonData == lastOp'.input.jsonData
            k == Cardinality({i \in 1..Len(jsonData) : trim(jsonData[i].nome) # ""})
            nc == Len(customers)
            nr == Len(renewals)
        IN /\ Len(customers') = nc + k
           /\ Len(renewals') = nr + k
           /\ SubSeq(customers', 1, nc) = customers
           /\ SubSeq(renewals', 1, nr) = renewals
           /\ \A i \in (nc + 1)..(nc + k) :
                /\ \A j \in 1..(nc + k) :
                     j # i => customers'[j].id # customers'[i].id
                /\ Cardinality({j \in (nr + 1)..(nr + k) :
                                  renewals'[j].customerId = customers'[i].id}) = 1
                /\ \A j \in (nr + 1)..(nr + k) :
                     renewals'[j].customerId = customers'[i].id
                     => renewals'[j].amount = customers'[i].amountPaid
           /\ UNCHANGED <<servers, plans, manualAdditions>>]_vars

(***************************************************************************)
(* The manual-addition dialog.                                             *)
(***************************************************************************)
\* C21 as stated: confirming the dialog with an amount that parses appends
\* exactly one manual addition dated now, the entered number for 'add' and
\* its negation for 'remove', after the additions there were.
C21_ParsableAmountAppendsOne ==
  [][(/\ lastOp'.op = "Plans.handleAddMoney"
      /\ ~isNaN(ParseAmount(lastOp'.input.moneyAmount)))
     => LET parsed == ParseAmount(lastOp'.input.moneyAmount)
            added == manualAdditions'[Len(manualAdditions')]
        IN /\ Len(manualAdditions') = Len(manualAdditions) + 1
           /\ SubSeq(manualAdditions', 1, Len(manualAdditions)) = manualAdditions
           /\ added.date = now
           /\ added.amount = IF lastOp'.input.moneyAction = "remove"
                             THEN Num(0 - parsed.v) ELSE parsed]_vars

\* C21: confirming the dialog with an amount that parses to a number above
\* zero appends exactly one manual addition dated now, the entered number
\* (above zero) for 'add' and its negation (below zero) for 'remove', after
\* the additions there were; with any other amount the manual additions
\* stay as they are; the other collections stay as they are in both cases.
C21_PositiveAmountAppendsOne ==
  [][lastOp'.op = "Plans.handleAddMoney"
     => LET parsed == ParseAmount(lastOp'.input.moneyAmount)
            added == manualAdditions'[Len(manualAdditions')]
        IN /\ IF parsed.t = "num" /\ parsed.v > 0
              THEN /\ Len(manualAdditions') = Len(manualAdditions) + 1
                   /\ SubSeq(manualAdditions', 1, Len(manualAdditions))
                        = manualAdditions
                   /\ added.date = now
                   /\ IF lastOp'.input.moneyAction = "remove"
                      THEN added.amount = Num(0 - parsed.v) /\ added.amount.v < 0
                      ELSE added.amount = parsed /\ added.amount.v > 0
              ELSE manualAdditions' = manualAdditions
           /\ UNCHANGED <<customers, servers, plans, renewals>>]_vars

\* a removal of 10 has just been confirmed after another entry: the last
\* manual addition is -10 dated now
C21_Witness ==
  /\ lastOp.op = "Plans.handleAddMoney"
  /\ lastOp.input.moneyAction = "remove"
  /\ Len(manualAdditions) >= 2
  /\ manualAdditions[Len(manualAdditions)].amount = Num(0 - 1000)
  /\ manualAdditions[Len(manualAdditions)].date = now

(***************************************************************************)
(* Renew of a customer or a plan that is not there.                        *)
(***************************************************************************)
\* C24: confirming a renew whose customerId matches no customer or whose
\* planId matches no plan changes none of the collections.
C24_RenewOfMissingIsNoOp ==
  [][(/\ lastOp'.op \in RenewOps
      /\ \/ \A c \in Range(customers) : c.id # lastOp'.input.customerId
         \/ \A p \in Range(plans) : p.id # lastOp'.input.planId)
     => UNCHANGED <<customers, servers, plans, renewals, manualAdditions,
                    backup>>]_vars

\* a renew has just been confirmed for a customer whose plan went away with
\* a restored backup: the customer has its one renewal as before
C24_Witness ==
  /\ lastOp.op \in RenewOps
  /\ \A p \in Range(plans) : p.id # lastOp.input.planId
  /\ \E c \in Range(customers) :
       /\ c.id = lastOp.input.customerId
       /\ Cardinality({i \in 1..Len(renewals) : renewals[i].customerId = c.id}) = 1

(***************************************************************************)
(* Forms submitted with text that is no number.                            *)
(***************************************************************************)
\* the amount text of the form the step submitted, << >> for other steps
SubmittedAmount(op) ==
  IF op.op = "Customers.handleSubmit" THEN <<op.input.formData.amountPaid>>
  ELSE IF op.op = "Servers.handleSubmit" THEN <<op.input.formData.costPerActive>>
  ELSE IF op.op = "Plans.handleSavePlan" THEN <<op.input.priceInput>>
  ELSE IF op.op = "Plans.handleAddMoney" THEN <<op.input.moneyAmount>>
  ELSE << >>

\* C25: submitting the customer form (new or edit), the server form, the
\* price editor or the manual-addition dialog with amount text that, after
\* its decimal comma is replaced by a point, does not parse as a number
\* leaves customers, servers, plans, renewals and manual additions as they
\* are.
C25_UnparsableAmountChangesNothing ==
  [][(/\ SubmittedAmount(lastOp') # << >>
      /\ parseFloat(ReplaceComma(SubmittedAmount(lastOp')[1])) = NaN)
     => UNCHANGED <<customers, servers, plans, renewals, manualAdditions>>]_vars

\* the edit form of a customer has just been submitted with text that is no
\* number: the customer has the amount it had
C25_Witness ==
  /\ lastOp.op = "Customers.handleSubmit"
  /\ lastOp.input.editing # << >>
  /\ parseFloat(ReplaceComma(lastOp.input.formData.amountPaid)) = NaN
  /\ \E c \in Range(customers) :
       c.id = lastOp.input.editing[1].id /\ c.amountPaid.t = "num"

(***************************************************************************)
(* The cost of the renewals an import writes.                              *)
(***************************************************************************)
\* C26: the renewal an import writes for a customer carries as cost the
\* costPerActive of the server whose id the customer got (0 when there is
\* none) times the months of the plan whose id the customer got, as the
\* customer form computes it.
C26_ImportCostAsInForm ==
  [][lastOp'.op = "Customers.handleFileUpload"
     => \A i \in (Len(renewals) + 1)..Len(renewals') :
          LET r == renewals'[i]
              perActive == IF \E sv \in Range(servers) : sv.id = r.serverId
                           THEN (CHOOSE sv \in Range(servers) :
                                   sv.id = r.serverId).costPerActive.v
                           ELSE 0
          IN /\ \E c \in Range(customers') :
                  c.id = r.customerId /\ c.serverId = r.serverId
                                      /\ c.planId = r.planId
             /\ r.cost = Num(perActive * MonthsOfPlanOf(r))]_vars

(***************************************************************************)
(* A renew moves the due date forward.                                     *)
(***************************************************************************)
\* C27: after a renew of an existing customer whose due date is a date, on
\* an existing plan of at least one month, the customer's due date is later
\* than it was and later than today, and the dashboard, the servers view
\* and the customers list (filter and badge) all take the customer for
\* active, whatever it was before.
C27_RenewMakesActive ==
  [][lastOp'.op \in RenewOps
     => \A c \in Range(customers), plan \in Range(plans) :
          (/\ c.id = lastOp'.input.customerId
           /\ plan.id = lastOp'.input.planId
           /\ plan.months >= 1
           /\ c.dueDate # << >>)
          => \A c2 \in Range(customers') :
               c2.id = c.id
               => /\ c2.dueDate # << >>
                  /\ DayNumber(c2.dueDate) > DayNumber(c.dueDate)
                  /\ DayNumber(c2.dueDate) > DayNumber(now.date)
                  /\ DashboardIsActive(c2)
                  /\ ServersIsActive(c2)
                  /\ CustomersFilterIsActive(c2)
                  /\ CustomersBadgeIsActive(c2)]_vars

\* a renew has just been confirmed, later than midnight, for a customer
\* that was due the day before: it is due a month from today
C27_Witness ==
  /\ lastOp.op \in RenewOps
  /\ now.tod > 0
  /\ now.date # StartDate
  /\ \E c \in Range(customers) :
       /\ c.id = lastOp.input.customerId
       /\ lastOp.input.planId = "1"
       /\ c.dueDate = PlusMonths(now.date, 1)
       /\ DashboardIsActive(c)


\* every renewal and every manual addition carries a date that parses
AllDatesValid ==
  /\ \A r \in Range(renewals) : IsValidDate(r.date)
  /\ \A a \in Range(manualAdditions) : IsValidDate(a.date)

\* the calendar months in which a renewal or a manual addition is dated
EntryMonths ==
  {<<x.date.date[1], x.date.date[2]>> :
     x \in {y \in Range(renewals) \cup Range(manualAdditions) : IsValidDate(y.date)}}

\* the net of the monthly report added up over the months of a set
RECURSIVE SumOfNets(_)
SumOfNets(months) ==
  IF months = {} THEN Num(0)
  ELSE LET ym == CHOOSE x \in months : TRUE
       IN Plus(SumOfNets(months \ {ym}), monthlyStats(PickMonth(ym[1], ym[2])).net)

\* C28: when every renewal and every manual addition carries a valid date,
\* the net of the monthly report added up over the calendar months that
\* hold at least one entry is the dashboard's netValue.
C28_MonthlyNetsAddUpToNet ==
  AllDatesValid => SumOfNets(EntryMonths) = netValue

\* entries in two months: a renewal without a cost and a manual addition in
\* January, a renewal with a cost and a manual removal in February
C28_Witness ==
  /\ AllDatesValid
  /\ EntryMonths = {<<2024, 1>>, <<2024, 2>>}
  /\ \E r \in Range(renewals) : r.cost = Undefined /\ r.date.date[2] = 1
  /\ \E r \in Range(renewals) : GtZero(r.cost) /\ r.date.date[2] = 2
  /\ \E a \in Range(manualAdditions) : GtZero(a.amount) /\ a.date.date[2] = 1
  /\ \E a \in Range(manualAdditions) : LtZero(a.amount) /\ a.date.date[2] = 2


\* the gross of the rows of the per-server summary added up
RowsGross(cs, ss, rs) ==
  Reduce([k \in 1..Len(serverStatsOf(cs, ss, rs)) |->
            serverStatsOf(cs, ss, rs)[k].monthlyGross])

\* the renewals of rs whose serverId is the id of no server of ss
Orphans(ss, rs) ==
  LET Missing(r) == \A s \in Range(ss) : s.id # r.serverId
  IN SelectSeq(rs, Missing)

DistinctServerIds(ss) ==
  \A i, j \in 1..Len(ss) : ss[i].id = ss[j].id => i = j

\* grossValue less the rows' gross is what the renewals of missing servers
\* paid
GrossSplits(cs, ss, rs) ==
  Minus(Reduce(Amounts(rs)), RowsGross(cs, ss, rs)) = Reduce(Amounts(Orphans(ss, rs)))

\* a server deleted: the two dashboard totals stay, its row is gone and
\* the rows' gross falls by what its renewals paid
DeletionKeepsTotals ==
  lastOp'.op = "Servers.delete"
  => /\ Reduce(Amounts(renewals')) = grossValue
     /\ Reduce(Costs(renewals')) = totalPaidToServers
     /\ Len(serverStatsOf(customers', servers', renewals')) = Len(serverStats) - 1
     /\ RowsGross(customers', servers', renewals')
          = Minus(RowsGross(customers, servers, renewals),
                  Reduce(Amounts(RenewalsOfServer(lastOp'.input.id))))
     /\ RenewalsOfServer(lastOp'.input.id)
          = SelectSeq(Orphans(servers', renewals'),
                      LAMBDA r : r.serverId = lastOp'.input.id)

\* C29 as stated: with distinct server ids, grossValue less the sum of the
\* per-server gross is the sum of the amounts of the renewals of missing
\* servers, the rows add up to grossValue exactly when no renewal is of a
\* missing server, and deleting a server keeps grossValue and
\* totalPaidToServers while its renewals leave the rows.
C29_RowsAddUpExactlyWithoutOrphans ==
  [][DistinctServerIds(servers')
     => /\ GrossSplits(customers', servers', renewals')
        /\ (RowsGross(customers', servers', renewals') = Reduce(Amounts(renewals')))
             <=> (Orphans(servers', renewals') = << >>)
        /\ DeletionKeepsTotals]_vars

\* C29: with distinct server ids, grossValue less the sum of the per-server
\* gross is the sum of the amounts of the renewals of missing servers, the
\* rows add up to grossValue whenever no renewal is of a missing server
\* (and also when the renewals of missing servers paid nothing), and
\* deleting a server keeps grossValue and totalPaidToServers while its
\* renewals leave the rows.
C29_GrossLessRowsIsOrphans ==
  [][DistinctServerIds(servers')
     => /\ GrossSplits(customers', servers', renewals')
        /\ (RowsGross(customers', servers', renewals') = Reduce(Amounts(renewals')))
             <=> (Reduce(Amounts(Orphans(servers', renewals'))) = Num(0))
        /\ (Orphans(servers', renewals') = << >>
              => RowsGross(customers', servers', renewals') = Reduce(Amounts(renewals')))
        /\ DeletionKeepsTotals]_vars

\* one of two servers was just deleted: its paid renewals are of a missing
\* server, the other server keeps its row
C29_Witness ==
  /\ lastOp.op = "Servers.delete"
  /\ Len(serverStats) = 1
  /\ Reduce(Amounts(Orphans(servers, renewals))) # Num(0)
  /\ \A r \in Range(Orphans(servers, renewals)) : r.serverId = lastOp.input.id


\* the five collections
Collections(cs, ss, ps, rs, ms) ==
  [customers |-> cs, servers |-> ss, plans |-> ps, renewals |-> rs,
   manualAdditions |-> ms]

\* C30: when the backup last exported is restored, whatever was done since
\* the export, the five collections are again those of the state in which
\* it was exported, element for element.
C30_BackupRoundTrip ==
  [][(/\ lastOp'.op = "Storage.handleImportAll"
      /\ backup # << >> /\ lastOp'.input.file = backup[1])
     => Collections(customers', servers', plans', renewals', manualAdditions')
          = exported[1]]_vars


\* the text that stands for a token in the message of customer c opened
\* from the button op
ValueOf(op, c, token) ==
  LET due == IF op = "Customers.whatsApp" THEN parseLocalDateCustomers(c.dueDate)
             ELSE IF op = "Dashboard.handleWhatsAppClick" /\ c.dueDate = << >>
             THEN TodayMidnight ELSE parseLocalDate(c.dueDate)
      days == IF op = "Customers.whatsApp" THEN CustomersDaysDiff(c)
              ELSE differenceInDays(due, TodayMidnight)
  IN CASE token = "{nome}" -> <<c.name>>
       [] token = "{valor}" -> formatCurrency(c.amountPaid)
       [] token = "{dias}" -> DaysText(days)
       [] token = "{vencimento}" -> VencimentoText(due)

\* the template with the first occurrence of each token replaced by its
\* value, in one pass over the template
SinglePass(template, op, c) ==
  LET First(i) == \A j \in 1..(i - 1) : template[j] # template[i]
      RECURSIVE Upto(_)
      Upto(k) ==
        IF k = 0 THEN << >>
        ELSE Upto(k - 1) \o (IF template[k] \in Tokens /\ First(k)
                             THEN ValueOf(op, c, template[k])
                             ELSE <<template[k]>>)
  IN Upto(Len(template))

\* C22: the message a reminder button opens is the operator's template
\* with the first occurrence of each of the four tokens replaced by its
\* value and everything else as it is in the template; the text put in for
\* one token is not replaced again.
C22_SinglePassSubstitution ==
  lastOp.op \in NotifyOps
  => \E c \in Range(customers) :
       /\ c.id = lastOp.input.id
       /\ lastOp.input.message = SinglePass(whatsappMessage, lastOp.op, c)


\* C23: a synchronisation in which a write failed, by an exception or by
\* an error result, ends with the failure notice and not the success
\* notice, with the five collections as they were and the syncing flag
\* false.
C23_FailedSyncShowsFailure ==
  [][(/\ sync.isSyncing /\ ~sync'.isSyncing
      /\ lastOp'.op = "Storage.syncLocalToCloud.upsert"
      /\ (sync'.refused > 0 \/ lastOp'.input.outcome = "throws"))
     => /\ sync'.notice = "failure"
        /\ UNCHANGED <<customers, servers, plans, renewals, manualAdditions>>]_vars

====
